---- MODULE Spec2Model ----
(***************************************************************************)
(* Verification model of gixsql:                                           *)
(*   - GixPreProcessor (src/unnamed/part_000): the preprocessor driver,    *)
(*     its step list, options map, error data and the process()/transform()*)
(*     pipeline;                                                           *)
(*   - DbInterfacePGSQL (src/runtime/libgixsql/DbInterfaceFactory.cpp):    *)
(*     the PostgreSQL runtime driver;                                      *)
(*   - DbInterfaceFactory (same file, lines 59-210): the loader of the     *)
(*     driver modules;                                                     *)
(*   - main of gixpp (src/unnamed/part_001): the command line in front of  *)
(*     the preprocessor driver.                                            *)
(* The components share no state; each has its own specifications (Spec    *)
(* for the preprocessor, SpecDB and others for the driver, SpecFactory,    *)
(* SpecMain) in which the other components stay in their constructed       *)
(* state.                                                                  *)
(***************************************************************************)
EXTENDS Integers, Sequences, FiniteSets, TLC

(***************************************************************************)
(* Bounds                                                                  *)
(***************************************************************************)
MaxSteps == 3
NumStepObjs == 2
MaxCalls == 2

(***************************************************************************)
(* Preprocessor: values                                                    *)
(***************************************************************************)
Null == 0

StepObjs == 1..NumStepObjs

\* std::variant<int, float, bool, std::string>, as tag + payload
VBool(b) == [tag |-> "bool", b |-> b, s |-> "", i |-> 0]
VStr(s) == [tag |-> "string", b |-> FALSE, s |-> s, i |-> 0]
VInt(i) == [tag |-> "int", b |-> FALSE, s |-> "", i |-> i]

OptKeys == {"no_output", "params_style"}
OptValues == {VBool(TRUE), VBool(FALSE), VStr("a")}

\* the files present on disk
ExistingFiles == {"a.cbl"}

\* error codes a failing step stores in the shared ErrorData
StepErrCodes == {7}

\* TransformationStepData
FilenameData(f) == [type |-> "Filename", filename |-> f]

VARIABLES
    steps,          \* std::vector<std::shared_ptr<ITransformationStep>>
    opts,           \* variant_map
    infile_,        \* _infile
    outfile_,       \* _outfile
    input,          \* TransformationStepData* input (heap index, 0 = nullptr)
    output,         \* TransformationStepData* output
    err_code,       \* err_data.err_code
    err_messages,   \* err_data.err_messages
    heap,           \* the TransformationStepData objects allocated so far
    stepIn,         \* per step object: its input pointer
    stepOut,        \* per step object: its output pointer
    pc,             \* "idle" or "transform" (inside the loop of transform())
    k,              \* position of the loop of transform() (1-based)
    prev_step,      \* prev_step of transform()
    ret,            \* what the last process() call returned / how it ended
    optResult,      \* the value the last getOpt returned
    runLog,         \* the run() invocations of the current process() call
    inputSet,       \* list positions for which transform() called setInput
    calls           \* number of process() calls so far

ppvars == <<steps, opts, infile_, outfile_, input, output, err_code,
            err_messages, heap, stepIn, stepOut, pc, k, prev_step, ret,
            optResult, runLog, inputSet, calls>>

\* the state of DbInterfaceFactory and of the process that calls it
VARIABLES
    libHandles,     \* the driver modules loaded ("Library not freed here")
    instances,      \* the number of IDbInterface objects made by get_dblib
    depth,          \* the frames of getManagerInterface on the stack
    facAlive,       \* the process has not been killed
    facOp           \* the last call of the factory and what came of it

\* the state of one run of gixpp (main, src/unnamed/part_001)
VARIABLES
    mainPc,         \* "start", "process" (gp is configured), "exited"
    mainOp          \* the command line, the output name and the exit code

xvars == <<libHandles, instances, depth, facAlive, facOp, mainPc, mainOp>>

(***************************************************************************)
(* Preprocessor: helpers                                                   *)
(***************************************************************************)
\* map_contains<std::string, variant>(opts, id)
map_contains(m, id) == id \in DOMAIN m

\* GixPreProcessor::getOpt(id, default): the three overloads differ only in
\* the type of the default
getOpt(m, id, dflt) == IF map_contains(m, id) THEN m[id] ELSE dflt

\* opts[id] = v
MapPut(m, id, v) == [x \in (DOMAIN m) \cup {id} |-> IF x = id THEN v ELSE m[x]]

\* TransformationStepData::isValid for the Filename kind
isValid(d) == d.type = "Filename" /\ d.filename # ""

\* file_exists(path)
file_exists(f) == f \in ExistingFiles

firstStep(s) == IF Len(s) > 0 THEN s[1] ELSE Null
lastStep(s) == IF Len(s) > 0 THEN s[Len(s)] ELSE Null

ERR_BAD_INPUT == 1
ERR_BAD_OUTPUT == 2
ERR_NO_INPUT == 4

(***************************************************************************)
(* Preprocessor: construction                                              *)
(***************************************************************************)
InitPP ==
    /\ steps = <<>>
    /\ opts = << >>
    /\ infile_ = ""
    /\ outfile_ = ""
    /\ input = Null
    /\ output = Null
    /\ err_code = 0
    /\ err_messages = <<>>
    /\ heap = <<>>
    /\ stepIn = [s \in StepObjs |-> Null]
    /\ stepOut = [s \in StepObjs |-> Null]
    /\ pc = "idle"
    /\ k = 0
    /\ prev_step = Null
    /\ ret = "none"
    /\ optResult = VBool(FALSE)
    /\ runLog = <<>>
    /\ inputSet = {}
    /\ calls = 0

(***************************************************************************)
(* Preprocessor: the operations called by the CLI layer.  The CLI (main,   *)
(* part_001 lines 160-217) configures the preprocessor and then calls      *)
(* process(); the configuring operations are taken before the first call.  *)
(***************************************************************************)
ppHist == <<runLog, inputSet>>
ppLoop == <<pc, k, prev_step, ret>>
ppData == <<input, output, heap, stepIn, stepOut>>
ppErr == <<err_code, err_messages>>
ppFiles == <<infile_, outfile_>>

Configuring == pc = "idle" /\ calls = 0

\* GixPreProcessor::addStep
addStep(s) ==
    /\ Configuring
    /\ Len(steps) < MaxSteps
    /\ steps' = Append(steps, s)
    /\ UNCHANGED <<opts, ppFiles, ppData, ppErr, ppLoop, optResult, ppHist,
                   calls>>

\* GixPreProcessor::addCustomStep: forwards to addStep
addCustomStep(s) == addStep(s)

\* GixPreProcessor::setInputFile
setInputFile(f) ==
    /\ Configuring
    /\ infile_' = f
    /\ UNCHANGED <<steps, opts, outfile_, ppData, ppErr, ppLoop, optResult,
                   ppHist, calls>>

\* GixPreProcessor::setOutputFile
setOutputFile(f) ==
    /\ Configuring
    /\ outfile_' = f
    /\ UNCHANGED <<steps, opts, infile_, ppData, ppErr, ppLoop, optResult,
                   ppHist, calls>>

\* GixPreProcessor::setOpt
setOpt(id, v) ==
    /\ Configuring
    /\ opts' = MapPut(opts, id, v)
    /\ UNCHANGED <<steps, ppFiles, ppData, ppErr, ppLoop, optResult, ppHist,
                   calls>>

\* variant: the lookup written as a bare opts[id], which inserts a missing key
OptsAfterGet_inserting(m, id, dflt) ==
    IF map_contains(m, id) THEN m ELSE MapPut(m, id, dflt)

\* the options map after a getOpt call: the lookup goes through
\* map_contains first, so operator[] never inserts
OptsAfterGet(m, id, dflt) == m

\* the body shared by the getOpt overloads
GetOptCall(id, dflt) ==
    /\ pc = "idle"
    /\ optResult' = getOpt(opts, id, dflt)
    /\ opts' = OptsAfterGet(opts, id, dflt)
    /\ UNCHANGED <<steps, ppFiles, ppData, ppErr, ppLoop, ppHist, calls>>

\* GixPreProcessor::getOpt(std::string id, bool b)
getOptBool(id, b) == GetOptCall(id, VBool(b))

\* GixPreProcessor::getOpt(std::string id, std::string s)
getOptString(id, s) == GetOptCall(id, VStr(s))

\* GixPreProcessor::getOpt(std::string id, int i)
getOptInt(id, i) == GetOptCall(id, VInt(i))

(***************************************************************************)
(* Preprocessor: process() and transform()                                 *)
(***************************************************************************)
CHECKS_PASSED == 0
CHECKS_THREW == -1

\* std::get<bool>(getOpt("no_output", false)) throws std::bad_variant_access
\* when the stored alternative is not bool
NoOutputThrows(m) == getOpt(m, "no_output", VBool(FALSE)).tag # "bool"

no_output(m) == getOpt(m, "no_output", VBool(FALSE)).b

\* variant: the output check made without looking at no_output
ProcessChecks_ignoringNoOutput(inD, outD, m) ==
    IF ~isValid(inD) THEN ERR_BAD_INPUT
    ELSE IF ~isValid(outD) THEN ERR_BAD_OUTPUT
    ELSE IF ~file_exists(inD.filename) THEN ERR_NO_INPUT
    ELSE CHECKS_PASSED

\* the checks of process() between the construction of the wrappers and the
\* call of transform(): the error code set, or CHECKS_PASSED / CHECKS_THREW
ProcessChecks(inD, outD, m) ==
    IF ~isValid(inD) THEN ERR_BAD_INPUT
    ELSE IF NoOutputThrows(m) THEN CHECKS_THREW
    ELSE IF ~no_output(m) /\ ~isValid(outD) THEN ERR_BAD_OUTPUT
    ELSE IF ~file_exists(inD.filename) THEN ERR_NO_INPUT
    ELSE CHECKS_PASSED

ErrMessage(c) ==
    CASE c = ERR_BAD_INPUT -> "Bad input file"
      [] c = ERR_BAD_OUTPUT -> "Bad output file"
      [] c = ERR_NO_INPUT -> "Input file does not exist"

\* variant: the test for an empty step list left out
StepsEmpty_never(s) == FALSE

\* process() returns at once on an empty step list
StepsEmpty(s) == Len(s) = 0

\* GixPreProcessor::process, up to the call of transform()
process ==
    /\ pc = "idle"
    /\ calls < MaxCalls
    /\ calls' = calls + 1
    /\ runLog' = <<>>
    /\ inputSet' = {}
    /\ IF StepsEmpty(steps)
       THEN /\ ret' = "false"
            /\ UNCHANGED <<ppData, ppErr, pc, k, prev_step>>
       ELSE LET inId == Len(heap) + 1
                outId == Len(heap) + 2
                inD == FilenameData(infile_)
                outD == FilenameData(outfile_)
                c == ProcessChecks(inD, outD, opts)
            IN  /\ heap' = heap \o <<inD, outD>>
                /\ stepIn' = [stepIn EXCEPT ![firstStep(steps)] = inId]
                /\ stepOut' = [stepOut EXCEPT ![lastStep(steps)] = outId]
                /\ input' = inId
                /\ output' = outId
                /\ prev_step' = Null
                /\ IF c = CHECKS_PASSED
                   THEN /\ pc' = "transform"
                        /\ k' = 1
                        /\ ret' = "running"
                        /\ UNCHANGED ppErr
                   ELSE IF c = CHECKS_THREW
                   THEN /\ ret' = "threw"
                        /\ UNCHANGED <<ppErr, pc, k>>
                   ELSE /\ ret' = "false"
                        /\ err_code' = c
                        /\ err_messages' = Append(err_messages, ErrMessage(c))
                        /\ UNCHANGED <<pc, k>>
    /\ UNCHANGED <<steps, opts, ppFiles, optResult>>

\* transform(): "if (step != steps.at(0))"
NeedsInput(s, stp) == stp # s[1]

\* variant: the result of run() ignored
RunFailedReturns_never(ok) == FALSE

\* transform(): "if (!step->run(prev_step)) return false"
RunFailedReturns(ok) == ~ok

\* one iteration of the loop of GixPreProcessor::transform; on the last
\* iteration also the return of transform() and of process()
transform ==
    /\ pc = "transform"
    /\ \E ok \in BOOLEAN, fresh \in BOOLEAN :
        LET step == steps[k]
            setIn == NeedsInput(steps, step)
            in1 == IF setIn
                   THEN [stepIn EXCEPT ![step] = stepOut[prev_step]]
                   ELSE stepIn
            newId == Len(heap) + 1
        IN  /\ stepIn' = in1
            /\ inputSet' = IF setIn THEN inputSet \cup {k} ELSE inputSet
            /\ runLog' = Append(runLog,
                   [pos |-> k, step |-> step, pred |-> prev_step,
                    inp |-> in1[step],
                    prevOut |-> IF k > 1 THEN stepOut[steps[k-1]] ELSE Null,
                    ok |-> ok])
            \* ITransformationStep::run
            /\ IF fresh
               THEN /\ heap' = Append(heap, [type |-> "Content", filename |-> ""])
                    /\ stepOut' = [stepOut EXCEPT ![step] = newId]
               ELSE UNCHANGED <<heap, stepOut>>
            /\ IF ok
               THEN UNCHANGED ppErr
               ELSE \E c \in StepErrCodes :
                      /\ err_code' = c
                      /\ err_messages' = Append(err_messages, "step failed")
            /\ IF RunFailedReturns(ok)
               THEN /\ ret' = "false"
                    /\ pc' = "idle"
                    /\ UNCHANGED <<k, prev_step>>
               ELSE /\ prev_step' = step
                    /\ IF k < Len(steps)
                       THEN /\ k' = k + 1
                            /\ UNCHANGED <<pc, ret>>
                       ELSE /\ ret' = "true"
                            /\ pc' = "idle"
                            /\ k' = k
    /\ UNCHANGED <<steps, opts, ppFiles, input, output, optResult, calls>>

(***************************************************************************)
(* PostgreSQL driver: values                                               *)
(***************************************************************************)
MaxConnects == 2
MaxRows == 1
MaxParams == 1

\* libpq ExecStatusType / ConnStatusType
PGRES_COMMAND_OK == 1
PGRES_TUPLES_OK == 2
PGRES_FATAL_ERROR == 7

\* IDbInterface.h
DBERR_NO_ERROR == 0
DBERR_CONNECTION_FAILED == -100
DBERR_SQL_ERROR == -106
DBERR_PREPARE_FAILED == -124
DBERR_INTERNAL_ERR == -126
DBERR_DECLARE_CURSOR_FAILED == -115
DBERR_OPEN_CURSOR_FAILED == -116

\* the ICursor objects of the calling program; NoCursor is the null pointer
CursorNames == {"c1"}
NoCursor == ""

\* the statements sent by the calling program, by their leading keyword
Stmts == {"COMMIT", "ROLLBACK", "UPDATE", "DELETE", "INSERT", "SELECT"}
\* the statements the calling program prepares
StmtNames == {"p1", "P1"}
\* SQLSTATE of an error result; NoField: the result carries no SQLSTATE field
NoField == "NULL"
ErrStates == {"40001"}

\* what the one column of a row holds: SQL NULL, the empty string, the text
\* "ab", or a bytea sent in its escaped form "\x41" (one byte once decoded)
NoCell == "none"

\* a PGresult: status, PG_DIAG_SQLSTATE field, PQcmdTuples as a number, and
\* what its rows hold; isnull marks the null pointer libpq returns without a
\* connection
PGresult(st, state, n) ==
    [isnull |-> FALSE, status |-> st, sqlstate |-> state, tuples |-> n,
     cell |-> NoCell]
NullResult ==
    [isnull |-> TRUE, status |-> PGRES_FATAL_ERROR, sqlstate |-> NoField,
     tuples |-> 0, cell |-> NoCell]
\* the result of a query: n rows of one column holding cell
PGrows(n, cell) ==
    [PGresult(PGRES_TUPLES_OK, NoField, n) EXCEPT
        !.cell = IF n = 0 THEN NoCell ELSE cell]

\* shared_ptr<PGResultSetData>: nullptr or the object
NoRS == [set |-> FALSE, resultset |-> NullResult, current_row_index |-> -1, num_rows |-> 0]
RS(r, idx, n) == [set |-> TRUE, resultset |-> r, current_row_index |-> idx, num_rows |-> n]

\* the last driver call, as seen by the calling program: its name, the
\* statement, the value returned, the number of transactions it started,
\* the backend's answer, whether it ended in an exception, and whether it
\* handed a statement to libpq (sent); arg is the statement name given to a
\* call that takes one, params the parameters handed to libpq; ok, value_len,
\* is_db_null and bfr are the result and the outputs of the calls that
\* return a bool; text is the SQL text given to prepare() after the leading
\* keyword, sql what prepare() handed to PQprepare in its place; args is the
\* four parameter arrays given to exec_params or exec_prepared; mode is the
\* fetch mode given to cursor_fetch_one, idx0 the row index the cursor of a
\* cursor call had before the call, obj the ICursor object given to
\* cursor_declare, at the row, column and buffer length given to
\* get_resultset_value, unreleased the PGresult handles the call received
\* from libpq and neither passed to PQclear nor left in a holder
\* (PGresultPtr, PGResultSetData) when it returned, written the number of
\* bytes get_resultset_value stored into the caller's buffer
NoCall == [name |-> "init", stmt |-> "", ret |-> 0, starts |-> 0,
           res |-> NullResult, threw |-> FALSE, sent |-> FALSE, arg |-> "",
           params |-> << >>, ok |-> TRUE, value_len |-> 0,
           is_db_null |-> FALSE, bfr |-> << >>, text |-> << >>,
           sql |-> << >>, args |-> <<<< >>, << >>, << >>, << >>>>,
           mode |-> "", idx0 |-> -1, obj |-> 0, at |-> <<0, 0, 0>>,
           unreleased |-> 0, written |-> 0]
Call(name, stmt, r, starts, res) ==
    [NoCall EXCEPT !.name = name, !.stmt = stmt, !.ret = r,
                   !.starts = starts, !.res = res, !.sent = TRUE]
\* a call that returned before any statement was handed to libpq
Unsent(name, stmt, r) ==
    [NoCall EXCEPT !.name = name, !.stmt = stmt, !.ret = r]
Thrown(name, stmt) ==
    [NoCall EXCEPT !.name = name, !.stmt = stmt, !.threw = TRUE]
\* the call c, made with the statement name sname
Named(c, sname) == [c EXCEPT !.arg = sname]
\* the call c, which handed the parameter array bound to libpq
WithParams(c, bound, args) == [c EXCEPT !.params = bound, !.args = args]

\* the same call, with the four parameter arrays it received
WithArgs(c, args) == [c EXCEPT !.args = args]

VARIABLES
    connaddr,       \* PGconn* (0 = NULL, else the number of the connection)
    connection_opts,
    current_resultset_data,
    last_rc,
    last_error,
    last_state,
    prepared_stmts, \* _prepared_stmts
    use_native_cursors,
    decode_binary,
    alive,          \* FALSE once a call has dereferenced a null pointer
    nconn,          \* native connections opened so far
    finished,       \* the native connections passed to PQfinish
    txOpen,         \* backend: the session of connaddr is in a transaction
    srv_prepared,   \* backend: the statements prepared in the session
    srv_cells,      \* backend: what the rows of the table can hold
    cursors,        \* the private data of each ICursor object
    declared_cursors, \* _declared_cursors: name -> the ICursor object
    srv_cursors,    \* backend: the open cursors of the session
    no_data,        \* history: the cursors whose cursor_fetch_one returned
                    \* DBERR_NO_DATA since their last successful cursor_open
    dbOp            \* the last driver call and its outcome

dbvars == <<connaddr, connection_opts, current_resultset_data, last_rc,
            last_error, last_state, prepared_stmts, use_native_cursors,
            decode_binary, alive, nconn, finished, txOpen, srv_prepared,
            srv_cells, cursors, declared_cursors, srv_cursors, no_data, dbOp>>

(***************************************************************************)
(* PostgreSQL driver: helpers                                              *)
(***************************************************************************)
\* variant: names are used as they are given
to_lower_verbatim(n) == n

\* to_lower on the statement names used here
to_lower(n) == IF n = "P1" THEN "p1" ELSE n

\* PQresultStatus: PGRES_FATAL_ERROR for a null result
PQresultStatus(r) == IF r.isnull THEN PGRES_FATAL_ERROR ELSE r.status

\* PQresultErrorMessage
PQresultErrorMessage(r) ==
    IF r.isnull \/ r.status \in {PGRES_COMMAND_OK, PGRES_TUPLES_OK}
    THEN ""
    ELSE "ERROR"

\* pg_get_sqlstate
pg_get_sqlstate(r) ==
    IF r.isnull \/ r.sqlstate = NoField THEN "00000" ELSE r.sqlstate

\* DbInterfacePGSQL::get_num_rows(PGresult*)
get_num_rows(r) == IF r.isnull THEN -1 ELSE r.tuples

\* is_tx_termination_statement (utils)
is_tx_termination_statement(q) == q \in {"COMMIT", "ROLLBACK"}

\* is_update_or_delete_statement (utils)
is_update_or_delete_statement(q) == q \in {"UPDATE", "DELETE", "INSERT"}

\* DbInterfacePGSQL::get_error_code
get_error_code == last_rc

\* DbInterfacePGSQL::get_state
get_state == last_state

(***************************************************************************)
(* Backend: what the server answers to a statement.  ok and n are the      *)
(* server's choice: whether it accepts the statement, and the row count.   *)
(***************************************************************************)
BackendResult(conn, q, ok, n, es, cell) ==
    IF conn = 0 THEN NullResult
    ELSE IF ~ok THEN PGresult(PGRES_FATAL_ERROR, es, 0)
    ELSE IF q = "SELECT" THEN PGrows(n, cell)
    ELSE IF q \in {"UPDATE", "DELETE", "INSERT"}
         THEN PGresult(PGRES_COMMAND_OK, NoField, n)
    ELSE PGresult(PGRES_COMMAND_OK, NoField, 0)

\* every answer the server can give to statement q
BackendAnswers(conn, q) ==
    {BackendResult(conn, q, ok, n, es, cell) :
        ok \in BOOLEAN, n \in 0..MaxRows, es \in ErrStates, cell \in srv_cells}

Accepted(r) == ~r.isnull /\ r.status \in {PGRES_COMMAND_OK, PGRES_TUPLES_OK}

\* the session's transaction state after the statement answered with r: a
\* COMMIT or ROLLBACK ends the transaction (a failing COMMIT rolls back), a
\* BEGIN or START TRANSACTION that is accepted opens one
BackendTx(conn, tx, q, r) ==
    IF conn = 0 THEN tx
    ELSE IF q \in {"COMMIT", "ROLLBACK"} THEN FALSE
    ELSE IF q \in {"BEGIN TRANSACTION", "START TRANSACTION"}
         THEN (tx \/ Accepted(r))
    ELSE tx

(***************************************************************************)
(* PostgreSQL driver: construction and init()                              *)
(***************************************************************************)
InitDriver ==
    /\ connaddr = 0
    /\ connection_opts = [set |-> FALSE, autocommit |-> "On", fixup_parameters |-> FALSE]
    /\ current_resultset_data = NoRS
    /\ last_rc = 0
    /\ last_error = ""
    /\ last_state = ""
    /\ prepared_stmts = << >>
    /\ use_native_cursors = TRUE
    /\ decode_binary = TRUE
    /\ alive = TRUE
    /\ nconn = 0
    /\ finished = {}
    /\ txOpen = FALSE
    /\ srv_prepared = << >>
    /\ cursors = [c \in CursorNames |-> NoRS]
    /\ declared_cursors = << >>
    /\ srv_cursors = << >>
    /\ no_data = {}
    /\ dbOp = NoCall

\* the driver after init(), and a table whose rows hold text
InitDB ==
    /\ InitDriver
    /\ srv_cells = {"text"}

(***************************************************************************)
(* PostgreSQL driver: connect, reset, terminate_connection                 *)
(***************************************************************************)
dbSession == <<connaddr, nconn, finished, txOpen, srv_prepared>>
dbErr == <<last_rc, last_error, last_state>>
dbCfg == <<connection_opts, use_native_cursors, decode_binary>>
dbCursors == <<cursors, declared_cursors, srv_cursors, no_data>>

\* the "native_cursors" / "decode_binary" connection options: "" is absent
OptionSwitch(cur, o) ==
    IF o \in {"on", "1", "true"} THEN TRUE
    ELSE IF o \in {"off", "0", "false"} THEN FALSE
    ELSE cur

\* connect(): "if (_conn_opts->autocommit == AutoCommitMode::Off)"
StartsInitialTx(ac) == ac = "Off"

\* DbInterfacePGSQL::connect.  ac, fix: the connection options; nat, dec: the
\* data source options; outcome: where the backend lets the call fail (the
\* data source names a default schema in the outcome "schema" only)
connect(ac, fix, nat, dec, outcome) ==
    /\ alive
    /\ nconn < MaxConnects
    /\ outcome = "begin" => StartsInitialTx(ac)
    /\ current_resultset_data' = NoRS
    /\ prepared_stmts' = prepared_stmts
    /\ alive' = TRUE
    /\ IF outcome = "null"
       THEN /\ connaddr' = 0
            /\ last_error' = "Connection failed"
            /\ last_rc' = DBERR_CONNECTION_FAILED
            /\ last_state' = ""
            /\ txOpen' = FALSE
            /\ srv_prepared' = << >>
            /\ dbOp' = Call("connect", "", DBERR_CONNECTION_FAILED, 0, NullResult)
            /\ UNCHANGED <<nconn, finished, dbCfg>>
       ELSE LET id == nconn + 1
            IN  /\ nconn' = id
                /\ IF outcome = "ok"
                   THEN /\ connaddr' = id
                        /\ finished' = finished
                        /\ last_rc' = 0
                        /\ last_error' = ""
                        /\ last_state' = ""
                        /\ txOpen' = StartsInitialTx(ac)
                        /\ srv_prepared' = << >>
                        /\ connection_opts' =
                              [set |-> TRUE, autocommit |-> ac,
                               fixup_parameters |-> fix]
                        /\ use_native_cursors' = OptionSwitch(use_native_cursors, nat)
                        /\ decode_binary' = OptionSwitch(decode_binary, dec)
                        /\ dbOp' = Call("connect", "", DBERR_NO_ERROR,
                                        IF StartsInitialTx(ac) THEN 1 ELSE 0,
                                        NullResult)
                   ELSE /\ connaddr' = 0
                        /\ finished' = finished \cup {id}
                        /\ txOpen' = FALSE
                        /\ srv_prepared' = << >>
                        /\ UNCHANGED dbCfg
                        /\ \E es \in ErrStates :
                            LET r == PGresult(PGRES_FATAL_ERROR, es, 0)
                            IN  /\ last_rc' = IF outcome \in {"bad", "encoding"}
                                              THEN (* CONNECTION_BAD *) 1
                                              ELSE PQresultStatus(r)
                                /\ last_error' = "ERROR"
                                /\ last_state' = IF outcome \in {"bad", "encoding"}
                                                 THEN ""
                                                 ELSE pg_get_sqlstate(r)
                        \* "auto r = PQexec(conn, spq.c_str())" is a raw
                        \* PGresult* that nothing clears
                        /\ dbOp' = [Call("connect", "", DBERR_CONNECTION_FAILED,
                                         IF outcome = "begin" THEN 1 ELSE 0,
                                         NullResult)
                                    EXCEPT !.unreleased =
                                        IF outcome = "schema" THEN 1 ELSE 0]

\* variant: terminate_connection forgets the prepared statements
terminate_connection_clearing ==
    /\ alive
    /\ finished' = IF connaddr # 0 THEN finished \cup {connaddr} ELSE finished
    /\ connaddr' = 0
    /\ current_resultset_data' = NoRS
    /\ txOpen' = FALSE
    /\ srv_prepared' = << >>
    /\ prepared_stmts' = << >>
    /\ dbOp' = Unsent("terminate_connection", "", DBERR_NO_ERROR)
    /\ UNCHANGED <<nconn, dbErr, dbCfg, alive>>

\* DbInterfacePGSQL::terminate_connection
terminate_connection ==
    /\ alive
    /\ finished' = IF connaddr # 0 THEN finished \cup {connaddr} ELSE finished
    /\ connaddr' = 0
    /\ current_resultset_data' = NoRS
    /\ txOpen' = FALSE
    /\ srv_prepared' = << >>
    /\ dbOp' = Unsent("terminate_connection", "", DBERR_NO_ERROR)
    /\ UNCHANGED <<nconn, dbErr, dbCfg, prepared_stmts, alive>>

\* DbInterfacePGSQL::reset: terminate_connection always answers DBERR_NO_ERROR
reset ==
    /\ alive
    /\ finished' = IF connaddr # 0 THEN finished \cup {connaddr} ELSE finished
    /\ connaddr' = 0
    /\ current_resultset_data' = NoRS
    /\ txOpen' = FALSE
    /\ srv_prepared' = << >>
    /\ dbOp' = Unsent("reset", "", DBERR_NO_ERROR)
    /\ UNCHANGED <<nconn, dbErr, dbCfg, prepared_stmts, alive>>

\* a call that dereferences the null connection_opts: the process is lost
NullDeref(name, q) ==
    /\ alive' = FALSE
    /\ dbOp' = Thrown(name, q)
    /\ UNCHANGED <<dbSession, dbErr, dbCfg, current_resultset_data,
                   prepared_stmts>>

(***************************************************************************)
(* PostgreSQL driver: exec, exec_params                                    *)
(***************************************************************************)
\* "we trap COMMIT/ROLLBACK"
TrapsTxEnd(q) ==
    connection_opts.autocommit = "Off" /\ is_tx_termination_statement(q)

\* variant: the new transaction started whatever the COMMIT/ROLLBACK gave
StartsNewTx_always(rc) == TRUE

\* "if (last_rc == PGRES_COMMAND_OK)" after a trapped COMMIT/ROLLBACK: the
\* driver starts a new transaction
StartsNewTx(rc) == rc = PGRES_COMMAND_OK

\* last_rc for a statement the backend refused
ErrorRc(rc) == -(10000 + rc)

\* the part _pgsql_exec and _pgsql_exec_params share, from the call of
\* PQexecParams on (crsr == nullptr).  sets_num_rows: exec_params stores the
\* row count in wk_rs->num_rows, exec leaves it 0; bound: the parameters
\* handed to PQexecParams; args: the parameter arrays.
ExecStatement(name, q, sets_num_rows, bound, args) ==
    \E r \in BackendAnswers(connaddr, q) :
        LET rc == PQresultStatus(r)
            tx1 == BackendTx(connaddr, txOpen, q, r)
        IN  IF TrapsTxEnd(q) /\ StartsNewTx(rc)
            THEN \E r2 \in BackendAnswers(connaddr, "START TRANSACTION") :
                 LET rc2 == PQresultStatus(r2)
                 IN  /\ last_rc' = rc2
                     /\ last_error' = PQresultErrorMessage(r2)
                     /\ last_state' = pg_get_sqlstate(r2)
                     /\ current_resultset_data' = NoRS
                     /\ txOpen' = BackendTx(connaddr, tx1, "START TRANSACTION", r2)
                     \* new_tx_rs is a raw PGresult* that nothing clears
                     /\ dbOp' = [WithParams(Call(name, q,
                                     IF rc2 # PGRES_COMMAND_OK
                                     THEN DBERR_SQL_ERROR ELSE DBERR_NO_ERROR,
                                     1, r), bound, args)
                                 EXCEPT !.unreleased = 1]
            ELSE /\ txOpen' = tx1
                 /\ last_error' = PQresultErrorMessage(r)
                 /\ last_state' = pg_get_sqlstate(r)
                 /\ IF /\ rc = PGRES_COMMAND_OK
                       /\ is_update_or_delete_statement(q)
                       /\ get_num_rows(r) <= 0
                    THEN /\ last_rc' = (* RC_NO_ROWS *) 100
                         /\ current_resultset_data' = NoRS
                         /\ dbOp' = WithParams(Call(name, q, DBERR_SQL_ERROR, 0, r), bound, args)
                    ELSE IF rc \in {PGRES_COMMAND_OK, PGRES_TUPLES_OK}
                    THEN /\ last_rc' = rc
                         /\ current_resultset_data' =
                               RS(r, -1, IF sets_num_rows THEN get_num_rows(r) ELSE 0)
                         /\ dbOp' = WithParams(Call(name, q, DBERR_NO_ERROR, 0, r), bound, args)
                    ELSE /\ last_rc' = ErrorRc(rc)
                         /\ current_resultset_data' = NoRS
                         /\ dbOp' = WithParams(Call(name, q, DBERR_SQL_ERROR, 0, r), bound, args)

\* DbInterfacePGSQL::exec, i.e. _pgsql_exec(nullptr, query)
exec(q) ==
    /\ alive
    /\ IF ~connection_opts.set
       THEN NullDeref("exec", q)
       ELSE /\ ExecStatement("exec", q, FALSE, << >>, NoCall.args)
            /\ UNCHANGED <<connaddr, nconn, finished, srv_prepared, dbCfg,
                           prepared_stmts, alive>>

\* the parameter count check of _pgsql_exec_params and exec_prepared
ParamCountMismatch(nT, nV, nL, nF) == nT # nV \/ nT # nF

\* paramLengths.at(i) in the binding loop throws std::out_of_range
LengthsAtThrows(nV, nL) == nL < nV

\* the sentinel length of a NULL parameter
DB_NULL == -1

\* CBL_FIELD_IS_BINARY(flags); flags is the set of the bits that are set
CBL_FIELD_IS_BINARY(flags) == "BINARY" \in flags

\* DbInterfacePGSQL::get_pgsql_type
get_pgsql_type(t, flags) ==
    IF t \in {"UNSIGNED_NUMBER", "SIGNED_NUMBER_TC", "SIGNED_NUMBER_TS",
              "SIGNED_NUMBER_LC", "SIGNED_NUMBER_LS", "UNSIGNED_NUMBER_PD",
              "SIGNED_NUMBER_PD", "UNSIGNED_BINARY", "SIGNED_BINARY"}
    THEN "OID_NUMERIC"
    ELSE IF t \in {"ALPHANUMERIC", "JAPANESE"}
    THEN (IF CBL_FIELD_IS_BINARY(flags) THEN "OID_BYTEA" ELSE "OID_VARCHAR")
    ELSE "0"

\* a slot of pgsqlParamArray that holds nullptr
NullSlot == [isnull |-> TRUE, bytes |-> << >>]

\* pgsqlParamArray::assign: the slot is left null when d is null, else it
\* receives a copy of the first l bytes
assign(d, v, l) ==
    IF d = "null" THEN NullSlot
    ELSE [isnull |-> FALSE, bytes |-> SubSeq(v, 1, l)]

\* the binding loop of _pgsql_exec_params and exec_prepared; ptrs[i] is what
\* paramValues[i].data() returned
BindParams(paramTypes, paramValues, paramLengths, paramFlags, ptrs) ==
    [i \in 1..Len(paramValues) |->
        [value  |-> IF paramLengths[i] # DB_NULL
                    THEN assign(ptrs[i], paramValues[i], paramLengths[i])
                    ELSE NullSlot,
         length |-> IF paramLengths[i] # DB_NULL THEN paramLengths[i] ELSE 0,
         type   |-> get_pgsql_type(paramTypes[i], paramFlags[i]),
         format |-> IF CBL_FIELD_IS_BINARY(paramFlags[i]) THEN 1 ELSE 0]]

\* the pointers data() can return for the values: the pointer of an empty
\* vector may be null or not
PointerChoices(paramValues) ==
    {ptrs \in [1..Len(paramValues) -> {"null", "nonnull"}] :
        \A i \in 1..Len(paramValues) : Len(paramValues[i]) > 0 => ptrs[i] = "nonnull"}

\* DbInterfacePGSQL::exec_params, i.e. _pgsql_exec_params(nullptr, ...)
exec_params(q, paramTypes, paramValues, paramLengths, paramFlags) ==
    /\ alive
    /\ LET args == <<paramTypes, paramValues, paramLengths, paramFlags>>
       IN
       IF ParamCountMismatch(Len(paramTypes), Len(paramValues),
                             Len(paramLengths), Len(paramFlags))
       THEN /\ last_error' = "Internal error: parameter count mismatch"
            /\ last_rc' = DBERR_INTERNAL_ERR
            /\ dbOp' = WithArgs(Unsent("exec_params", q, DBERR_INTERNAL_ERR), args)
            /\ UNCHANGED <<dbSession, dbCfg, last_state, prepared_stmts,
                           current_resultset_data, alive>>
       ELSE IF LengthsAtThrows(Len(paramValues), Len(paramLengths))
       THEN /\ dbOp' = WithArgs(Thrown("exec_params", q), args)
            /\ UNCHANGED <<dbSession, dbCfg, dbErr, prepared_stmts,
                           current_resultset_data, alive>>
       ELSE IF ~connection_opts.set
       THEN NullDeref("exec_params", q)
       ELSE /\ \E ptrs \in PointerChoices(paramValues) :
                  ExecStatement("exec_params", q, TRUE,
                                BindParams(paramTypes, paramValues,
                                           paramLengths, paramFlags, ptrs),
                                args)
            /\ UNCHANGED <<connaddr, nconn, finished, srv_prepared, dbCfg,
                           prepared_stmts, alive>>

(***************************************************************************)
(* PostgreSQL driver: prepare, exec_prepared                               *)
(***************************************************************************)
\* every answer the server can give to PQprepare of the name; 42P05 is the
\* SQLSTATE duplicate_prepared_statement
PrepareAnswers(conn, stmt_name) ==
    IF conn = 0 THEN {NullResult}
    ELSE IF stmt_name \in DOMAIN srv_prepared
    THEN {PGresult(PGRES_FATAL_ERROR, "42P05", 0)}
    ELSE {PGresult(PGRES_COMMAND_OK, NoField, 0)} \cup
         {PGresult(PGRES_FATAL_ERROR, es, 0) : es \in ErrStates}

\* the number of placeholders in the text of the statements prepared here:
\* "UPDATE T SET A = $1", "SELECT * FROM T", "COMMIT"
Placeholders(q) == IF q = "UPDATE" THEN 1 ELSE 0

\* every answer the server can give to PQexecPrepared of the name with
\* nParams parameters; 26000 is the SQLSTATE invalid_sql_statement_name,
\* 08P01 protocol_violation: the number of parameters supplied is not the
\* number the prepared statement requires
ExecPreparedAnswers(conn, stmt_name, nParams) ==
    IF conn = 0 THEN {NullResult}
    ELSE IF stmt_name \notin DOMAIN srv_prepared
    THEN {PGresult(PGRES_FATAL_ERROR, "26000", 0)}
    ELSE IF nParams # Placeholders(srv_prepared[stmt_name])
    THEN {PGresult(PGRES_FATAL_ERROR, "08P01", 0)}
    ELSE BackendAnswers(conn, srv_prepared[stmt_name])

\* the characters of the SQL texts: a letter, the two parameter markers,
\* the two quotes and the blank
MaxSqlLen == 3

RECURSIVE SeqsUpTo(_, _)
SeqsUpTo(S, n) ==
    IF n = 0 THEN {<< >>}
    ELSE LET shorter == SeqsUpTo(S, n - 1)
         IN  shorter \cup {Append(t, c) : t \in shorter, c \in S}

\* isalnum
isalnum(c) == c = "a"

\* std::to_string of a positive number, as a sequence of characters
RECURSIVE to_string(_)
to_string(n) ==
    LET digit == <<"0", "1", "2", "3", "4", "5", "6", "7", "8", "9">>
    IN  IF n < 10 THEN <<digit[n + 1]>>
        ELSE to_string(n \div 10) \o <<digit[(n % 10) + 1]>>

\* the loop of pgsql_fixup_parameters from position i on; n, sq, dq, pid and
\* out are n, in_single_quoted_string, in_double_quoted_string, in_param_id
\* and out_sql
RECURSIVE FixupFrom(_, _, _, _, _, _, _)
FixupFrom(sql, i, n, sq, dq, pid, out) ==
    IF i > Len(sql) THEN out
    ELSE LET c == sql[i]
         IN  IF pid /\ isalnum(c)
             THEN FixupFrom(sql, i + 1, n, sq, dq, pid, out)
             ELSE IF c = "\""
             THEN FixupFrom(sql, i + 1, n, sq, ~dq, FALSE, Append(out, c))
             ELSE IF c = "'"
             THEN FixupFrom(sql, i + 1, n, ~sq, dq, FALSE, Append(out, c))
             ELSE IF c \in {"?", ":"}
             THEN IF ~sq /\ ~dq
                  THEN FixupFrom(sql, i + 1, n + 1, sq, dq, TRUE,
                                 out \o <<"$">> \o to_string(n))
                  ELSE FixupFrom(sql, i + 1, n, sq, dq, FALSE, Append(out, c))
             ELSE FixupFrom(sql, i + 1, n, sq, dq, FALSE, Append(out, c))

\* pgsql_fixup_parameters
pgsql_fixup_parameters(sql) ==
    FixupFrom(sql, 1, 1, FALSE, FALSE, FALSE, << >>)

\* variant: prepare never finds the name in the table
AlreadyPrepared_never(tbl, stmt_name) == FALSE

\* "if (_prepared_stmts.find(stmt_name) != _prepared_stmts.end())"
AlreadyPrepared(tbl, stmt_name) == stmt_name \in DOMAIN tbl

\* DbInterfacePGSQL::prepare; the query is the keyword q followed by text
prepare(sname, q, text) ==
    /\ alive
    /\ LET stmt_name == to_lower(sname)
       IN  IF AlreadyPrepared(prepared_stmts, stmt_name)
           THEN /\ dbOp' = Named(Unsent("prepare", q, DBERR_PREPARE_FAILED), sname)
                /\ UNCHANGED <<dbSession, dbCfg, dbErr, prepared_stmts,
                               current_resultset_data, alive>>
           ELSE IF ~connection_opts.set
           THEN NullDeref("prepare", q)
           ELSE \E r \in PrepareAnswers(connaddr, stmt_name) :
                 LET rc == PQresultStatus(r)
                     prepared_sql ==
                         IF connection_opts.fixup_parameters
                         THEN pgsql_fixup_parameters(text)
                         ELSE text
                     sent(c) == [Named(c, sname) EXCEPT !.text = text,
                                                        !.sql = prepared_sql]
                 IN  /\ last_rc' = rc
                     /\ last_error' = PQresultErrorMessage(r)
                     /\ last_state' = pg_get_sqlstate(r)
                     /\ IF rc # PGRES_COMMAND_OK
                        THEN /\ dbOp' = sent(Call("prepare", q,
                                                 DBERR_PREPARE_FAILED, 0, r))
                             /\ UNCHANGED <<prepared_stmts, srv_prepared>>
                        ELSE /\ prepared_stmts' = MapPut(prepared_stmts, stmt_name, NoRS)
                             /\ srv_prepared' = MapPut(srv_prepared, stmt_name, q)
                             /\ dbOp' = sent(Call("prepare", q,
                                                 DBERR_NO_ERROR, 0, r))
                     /\ UNCHANGED <<connaddr, nconn, finished, txOpen, dbCfg,
                                    current_resultset_data, alive>>

\* variant: a result is stored and 0 returned whatever the backend answered
PreparedSucceeded_always(rc) == TRUE

\* "if (last_rc == PGRES_COMMAND_OK || last_rc == PGRES_TUPLES_OK)"
PreparedSucceeded(rc) == rc \in {PGRES_COMMAND_OK, PGRES_TUPLES_OK}

\* DbInterfacePGSQL::exec_prepared
exec_prepared(sname, paramTypes, paramValues, paramLengths, paramFlags) ==
    /\ alive
    /\ LET stmt_name == to_lower(sname)
           args == <<paramTypes, paramValues, paramLengths, paramFlags>>
       IN  IF stmt_name \notin DOMAIN prepared_stmts
           THEN /\ dbOp' = Named(Unsent("exec_prepared", "", DBERR_SQL_ERROR), sname)
                /\ UNCHANGED <<dbSession, dbCfg, dbErr, prepared_stmts,
                               current_resultset_data, alive>>
           ELSE IF ParamCountMismatch(Len(paramTypes), Len(paramValues),
                                      Len(paramLengths), Len(paramFlags))
           THEN /\ last_error' = "Internal error: parameter count mismatch"
                /\ last_rc' = DBERR_INTERNAL_ERR
                /\ dbOp' = Named(WithArgs(Unsent("exec_prepared", "", DBERR_INTERNAL_ERR), args), sname)
                /\ UNCHANGED <<dbSession, dbCfg, last_state, prepared_stmts,
                               current_resultset_data, alive>>
           ELSE IF LengthsAtThrows(Len(paramValues), Len(paramLengths))
           THEN /\ dbOp' = Named(WithArgs(Thrown("exec_prepared", ""), args), sname)
                /\ UNCHANGED <<dbSession, dbCfg, dbErr, prepared_stmts,
                               current_resultset_data, alive>>
           ELSE \E r \in ExecPreparedAnswers(connaddr, stmt_name, Len(paramValues)),
                   ptrs \in PointerChoices(paramValues) :
                 LET known == stmt_name \in DOMAIN srv_prepared
                     q == IF known THEN srv_prepared[stmt_name] ELSE ""
                     rc == PQresultStatus(r)
                     bound == BindParams(paramTypes, paramValues,
                                         paramLengths, paramFlags, ptrs)
                 IN  /\ last_error' = PQresultErrorMessage(r)
                     /\ last_state' = pg_get_sqlstate(r)
                     /\ txOpen' = IF known /\ r.sqlstate # "08P01"
                                  THEN BackendTx(connaddr, txOpen, q, r)
                                  ELSE txOpen
                     /\ IF PreparedSucceeded(rc)
                        THEN /\ last_rc' = rc
                             /\ prepared_stmts' = MapPut(prepared_stmts, stmt_name, RS(r, -1, 0))
                             /\ dbOp' = Named(WithParams(Call("exec_prepared", q, DBERR_NO_ERROR, 0, r), bound, args), sname)
                        ELSE /\ last_rc' = ErrorRc(rc)
                             /\ prepared_stmts' = prepared_stmts
                             /\ dbOp' = Named(WithParams(Call("exec_prepared", q, DBERR_SQL_ERROR, 0, r), bound, args), sname)
                     /\ UNCHANGED <<connaddr, nconn, finished, srv_prepared, dbCfg,
                                    current_resultset_data, alive>>

(***************************************************************************)
(* PostgreSQL driver: move_to_first_record, get_resultset_value            *)
(***************************************************************************)
\* IDbInterface.h
DBERR_NO_DATA == -122

\* the statement names the calling program passes: "" is "the current result
\* set", "zz" a name that was never prepared
LookupNames == StmtNames \cup {"", "zz"}

\* DbInterfacePGSQL::pgsqlSetError
pgsqlSetError(code, sqlstate, err_msg) ==
    /\ last_error' = err_msg
    /\ last_rc' = code
    /\ last_state' = sqlstate

\* DbInterfacePGSQL::move_to_first_record
move_to_first_record(sname) ==
    /\ alive
    /\ LET stmt_name == to_lower(sname)
           known == stmt_name = "" \/ stmt_name \in DOMAIN prepared_stmts
           wk_rs == IF stmt_name = "" THEN current_resultset_data
                    ELSE IF known THEN prepared_stmts[stmt_name]
                    ELSE NoRS
           call == Named(Unsent("move_to_first_record", "", 0), sname)
       IN  IF ~known \/ ~wk_rs.set \/ wk_rs.resultset.isnull
           THEN /\ pgsqlSetError((* DBERR_MOVE_TO_FIRST_FAILED *) -120, "HY000",
                                 "Invalid statement reference")
                /\ dbOp' = [call EXCEPT !.ok = FALSE]
           ELSE IF get_num_rows(wk_rs.resultset) <= 0
           THEN /\ pgsqlSetError(DBERR_NO_DATA, "02000", "No data")
                /\ dbOp' = [call EXCEPT !.ok = FALSE]
           ELSE /\ dbOp' = [call EXCEPT !.ok = TRUE]
                /\ UNCHANGED dbErr
    /\ UNCHANGED <<dbSession, dbCfg, dbCursors, prepared_stmts,
                   current_resultset_data, alive>>

\* PQntuples: the rows of a query result
PQntuples(r) ==
    IF r.isnull \/ r.status # PGRES_TUPLES_OK THEN 0 ELSE r.tuples

\* PQnfields: the query results here have one column
PQnfields(r) ==
    IF r.isnull \/ r.status # PGRES_TUPLES_OK THEN 0 ELSE 1

\* the text libpq holds for a cell
CellText(cell) ==
    IF cell = "text" THEN <<"a", "b">>
    ELSE IF cell = "bytea" THEN <<"\\", "x", "4", "1">>
    ELSE << >>

\* PQgetvalue: a null pointer when row or col is out of range
PQgetvalue(r, row, col) ==
    IF row < 0 \/ row >= PQntuples(r) \/ col < 0 \/ col >= PQnfields(r)
    THEN [isnull |-> TRUE, text |-> << >>]
    ELSE [isnull |-> FALSE, text |-> CellText(r.cell)]

\* PQgetisnull
PQgetisnull(r, row, col) ==
    IF row < 0 \/ row >= PQntuples(r) \/ col < 0 \/ col >= PQnfields(r)
    THEN TRUE
    ELSE r.cell = "null"

\* PQftype: the type of the column
PQftype(r, col) == IF r.cell = "bytea" THEN "OID_BYTEA" ELSE "OID_VARCHAR"

\* the bytes a text of hexadecimal digits stands for
RECURSIVE HexDecode(_)
HexDecode(t) ==
    IF Len(t) < 2 THEN << >>
    ELSE <<IF t[1] = "4" /\ t[2] = "1" THEN "A" ELSE "?">>
         \o HexDecode(SubSeq(t, 3, Len(t)))

\* PQunescapeBytea: the bytes of a bytea value sent in hex format
PQunescapeBytea(t) ==
    IF Len(t) >= 2 /\ t[1] = "\\" /\ t[2] = "x"
    THEN HexDecode(SubSeq(t, 3, Len(t)))
    ELSE t

\* variant: the value is copied whatever the buffer holds
TooLong_never(to_length, bfrlen) == FALSE

\* "if (to_length > bfrlen)"
TooLong(to_length, bfrlen) == to_length > bfrlen

\* DbInterfacePGSQL::get_resultset_value.  ctx: the context type; ref: the
\* statement name or the cursor of the context; null0: what *is_db_null held
\* at the call.  The buffer holds "?" at the call, whatever the caller left
\* in it
get_resultset_value(ctx, ref, row, col, bfrlen, null0) ==
    /\ alive
    /\ LET call == [Named(Unsent("get_resultset_value", ctx, 0), ref)
                      EXCEPT !.is_db_null = null0, !.value_len = 0,
                             !.bfr = <<"?">>, !.at = <<row, col, bfrlen>>]
           fails == [call EXCEPT !.ok = FALSE]
           stmt_name == to_lower(ref)
           crashes == ctx = "Cursor" /\ ref # NoCursor /\ ~cursors[ref].set
           unknown == \/ ctx = "PreparedStatement"
                         /\ stmt_name \notin DOMAIN prepared_stmts
                      \/ ctx = "Cursor" /\ ref = NoCursor
           wk_rs == IF ctx = "CurrentResultSet" THEN current_resultset_data
                    ELSE IF ctx = "PreparedStatement"
                    THEN prepared_stmts[stmt_name]
                    ELSE cursors[ref]
           row1 == IF ctx = "Cursor" /\ wk_rs.current_row_index # -1
                   THEN wk_rs.current_row_index
                   ELSE row
           res == PQgetvalue(wk_rs.resultset, row1, col).text
           nores == PQgetvalue(wk_rs.resultset, row1, col).isnull
       IN  IF unknown THEN dbOp' = fails /\ alive' = alive
           ELSE IF crashes
           THEN dbOp' = Named(Thrown("get_resultset_value", ctx), ref)
                /\ alive' = FALSE
           ELSE /\ alive' = alive
                /\ IF ~wk_rs.set THEN dbOp' = fails
                   ELSE IF nores THEN dbOp' = fails
                   ELSE IF Len(res) = 0
                           /\ PQgetisnull(wk_rs.resultset, row1, col)
                   THEN dbOp' = [call EXCEPT !.is_db_null = TRUE,
                                             !.value_len = 0,
                                             !.bfr = << >>,
                                             \* bfr[0] = 0
                                             !.written = 1]
                   ELSE IF PQftype(wk_rs.resultset, col) # "OID_BYTEA"
                           \/ ~decode_binary
                   THEN IF TooLong(Len(res), bfrlen) THEN dbOp' = fails
                        \* memcpy(bfr, res, to_length + 1)
                        ELSE dbOp' = [call EXCEPT !.value_len = Len(res),
                                                  !.bfr = res,
                                                  !.written = Len(res) + 1]
                   ELSE LET tmp_bfr == PQunescapeBytea(res)
                        IN  IF TooLong(Len(tmp_bfr), bfrlen) THEN dbOp' = fails
                            ELSE dbOp' = [call EXCEPT
                                            !.value_len = Len(tmp_bfr),
                                            !.bfr = tmp_bfr,
                                            \* memcpy of to_length bytes,
                                            \* memset of the rest of bfr
                                            !.written =
                                                IF Len(tmp_bfr) < bfrlen
                                                THEN bfrlen
                                                ELSE Len(tmp_bfr)]
    /\ UNCHANGED <<dbSession, dbCfg, dbErr, dbCursors, prepared_stmts,
                   current_resultset_data>>

(***************************************************************************)
(* PostgreSQL driver: cursors                                              *)
(***************************************************************************)
\* the emulated row index is a counter without limit: the calling program
\* stops fetching from a cursor whose index reached MaxIndex
MaxIndex == 3

\* the call c, made on the cursor crsr whose row index was idx0
OnCursor(c, crsr, idx0) == [c EXCEPT !.arg = crsr, !.idx0 = idx0]

\* variant: a new PGResultSetData starts at row 0
NewResultSetData_at0(r, n) == RS(r, 0, n)

\* std::make_shared<PGResultSetData>() with its resultset and num_rows
\* assigned: the constructor sets current_row_index to -1
NewResultSetData(r, n) == RS(r, -1, n)

\* variant: a later declaration replaces the record of the name
cursor_declare_replacing(crsr, obj) ==
    /\ alive
    /\ IF crsr = NoCursor
       THEN /\ dbOp' = Unsent("cursor_declare", "", DBERR_DECLARE_CURSOR_FAILED)
            /\ UNCHANGED declared_cursors
       ELSE /\ declared_cursors' = MapPut(declared_cursors, crsr, obj)
            /\ dbOp' = [OnCursor(Unsent("cursor_declare", "", DBERR_NO_ERROR),
                                 crsr, cursors[crsr].current_row_index)
                          EXCEPT !.obj = obj]
    /\ UNCHANGED <<dbSession, dbCfg, dbErr, prepared_stmts,
                   current_resultset_data, alive, cursors, srv_cursors,
                   no_data>>

\* DbInterfacePGSQL::cursor_declare; crsr is the name of the cursor, obj the
\* ICursor object that carries it (the calling program may hold several
\* objects of one name)
cursor_declare(crsr, obj) ==
    /\ alive
    /\ IF crsr = NoCursor
       THEN /\ dbOp' = Unsent("cursor_declare", "", DBERR_DECLARE_CURSOR_FAILED)
            /\ UNCHANGED declared_cursors
       ELSE /\ declared_cursors' =
                  IF crsr \notin DOMAIN declared_cursors
                  THEN MapPut(declared_cursors, crsr, obj)
                  ELSE declared_cursors
            /\ dbOp' = [OnCursor(Unsent("cursor_declare", "", DBERR_NO_ERROR),
                                 crsr, cursors[crsr].current_row_index)
                          EXCEPT !.obj = obj]
    /\ UNCHANGED <<dbSession, dbCfg, dbErr, prepared_stmts,
                   current_resultset_data, alive, cursors, srv_cursors,
                   no_data>>

\* every answer the server can give to the statement cursor_open sends (the
\* cursor's query is a SELECT, declared WITH HOLD), with
\* the cursors the server holds afterwards; 42P03 is the SQLSTATE
\* duplicate_cursor
OpenAnswers(conn, crsr, native) ==
    IF conn = 0 THEN {<<NullResult, srv_cursors>>}
    ELSE {<<PGresult(PGRES_FATAL_ERROR, es, 0), srv_cursors>> : es \in ErrStates}
         \cup
         (IF ~native
          THEN {<<PGrows(n, cell), srv_cursors>> :
                    n \in 0..MaxRows, cell \in srv_cells}
          ELSE IF crsr \in DOMAIN srv_cursors
          THEN {<<PGresult(PGRES_FATAL_ERROR, "42P03", 0), srv_cursors>>}
          ELSE {<<PGresult(PGRES_COMMAND_OK, NoField, 0),
                  MapPut(srv_cursors, crsr, [rows |-> n, pos |-> 0])>> : n \in 0..MaxRows})

\* every answer the server can give to "select statement from
\* pg_prepared_statements where lower(name) = lower($1)", each with the
\* statement text of its first row
CatalogueAnswers(conn, prep_stmt_name) ==
    IF conn = 0 THEN {<<NullResult, << >>>>}
    ELSE LET found == {n \in DOMAIN srv_prepared :
                          to_lower(n) = to_lower(prep_stmt_name)}
         IN  {<<PGresult(PGRES_FATAL_ERROR, es, 0), << >>>> : es \in ErrStates}
             \cup
             (IF found = {}
              THEN {<<PGrows(0, NoCell), << >>>>}
              ELSE {<<PGrows(Cardinality(found), "text"),
                      <<srv_prepared[n]>>>> : n \in found})

\* DbInterfacePGSQL::retrieve_prepared_statement_source, given the answer a
\* of the server: whether it returns true, src, and the error code,
\* message and state it leaves
retrieve_prepared_statement_source(a, prep_stmt_name) ==
    LET tr == a[1]
    IN  IF PQresultStatus(tr) = PGRES_TUPLES_OK /\ PQntuples(tr) # 1
        THEN [ok |-> FALSE, src |-> << >>, rc |-> 42704,
              error |-> "not found", state |-> "42704"]
        ELSE [ok |-> PQresultStatus(tr) = PGRES_TUPLES_OK, src |-> a[2],
              rc |-> PQresultStatus(tr), error |-> PQresultErrorMessage(tr),
              state |-> pg_get_sqlstate(tr)]

\* variant: cursor_open goes on after a lookup that failed
LookupRefused_never(found) == FALSE

\* "if (!retrieve_prepared_statement_source(squery.substr(1), squery))"
LookupRefused(found) == ~found

\* the part of cursor_open from _pgsql_exec_params(crsr, full_query, ...) on,
\* without parameters; query is the text the cursor was given, squery the
\* text after the lookup, q the leading keyword of full_query
OpenQuery(crsr, query, squery) ==
    LET q == IF use_native_cursors THEN "DECLARE" ELSE squery[1]
        idx0 == cursors[crsr].current_row_index
        done(c) == [OnCursor(c, crsr, idx0) EXCEPT !.text = query,
                                                   !.sql = squery]
    IN  IF ~connection_opts.set
        THEN /\ alive' = FALSE
             /\ dbOp' = done(Thrown("cursor_open", q))
             /\ UNCHANGED <<last_rc, last_error, last_state, dbCursors>>
        ELSE \E a \in OpenAnswers(connaddr, crsr, use_native_cursors) :
             LET r == a[1]
                 rc == PQresultStatus(r)
             IN  /\ alive' = alive
                 /\ srv_cursors' = a[2]
                 /\ last_error' = PQresultErrorMessage(r)
                 /\ last_state' = pg_get_sqlstate(r)
                 /\ declared_cursors' = declared_cursors
                 /\ IF rc \in {PGRES_COMMAND_OK, PGRES_TUPLES_OK}
                    THEN /\ last_rc' = rc
                         /\ cursors' = [cursors EXCEPT ![crsr] =
                                           NewResultSetData(r, get_num_rows(r))]
                         /\ no_data' = no_data \ {crsr}
                         /\ dbOp' = done(Call("cursor_open", q,
                                              DBERR_NO_ERROR, 0, r))
                    ELSE /\ last_rc' = ErrorRc(rc)
                         /\ cursors' = cursors
                         /\ no_data' = no_data
                         /\ dbOp' = done(Call("cursor_open", q,
                                              DBERR_OPEN_CURSOR_FAILED, 0, r))

\* DbInterfacePGSQL::cursor_open; query is the text of the cursor
\* (getQuery(), or the host variable of getQuerySource()) as the sequence
\* of its words, "@" being a word of its own
cursor_open(crsr, query) ==
    /\ alive
    /\ UNCHANGED <<dbSession, dbCfg, prepared_stmts, current_resultset_data>>
    /\ IF crsr = NoCursor
       THEN /\ dbOp' = Unsent("cursor_open", "", DBERR_OPEN_CURSOR_FAILED)
            /\ UNCHANGED <<dbErr, alive, dbCursors>>
       ELSE LET idx0 == cursors[crsr].current_row_index
                failed(c) == [OnCursor(c, crsr, idx0) EXCEPT !.text = query]
                empty == /\ last_rc' = -1
                         /\ last_error' = "Empty query"
                         /\ dbOp' = failed(Unsent("cursor_open", "",
                                                  DBERR_OPEN_CURSOR_FAILED))
                         /\ UNCHANGED <<last_state, alive, dbCursors>>
            IN
            IF Len(query) > 0 /\ query[1] = "@"
            THEN \E a \in CatalogueAnswers(connaddr, query[2]) :
                 LET looked == retrieve_prepared_statement_source(a, query[2])
                     squery == IF looked.ok THEN looked.src ELSE query
                 IN  IF LookupRefused(looked.ok)
                     THEN /\ last_rc' = looked.rc
                          /\ last_error' = looked.error
                          /\ last_state' = looked.state
                          /\ dbOp' = failed(Call("cursor_open", "CATALOGUE",
                                           DBERR_OPEN_CURSOR_FAILED, 0, a[1]))
                          /\ UNCHANGED <<alive, dbCursors>>
                     ELSE IF Len(squery) = 0 THEN empty
                     ELSE OpenQuery(crsr, query, squery)
            ELSE IF Len(query) = 0 THEN empty
            ELSE OpenQuery(crsr, query, query)

\* the row offset of "FETCH RELATIVE n FROM ..." for the fetch mode
RelativeOffset(fetchmode) ==
    IF fetchmode = "CUR" THEN 0
    ELSE IF fetchmode = "PREV" THEN -1
    ELSE 1

\* every answer the server can give to FETCH RELATIVE offset FROM crsr (a
\* cursor of the backend is the number of rows of its query and its
\* position, 0 before the first row and rows + 1 after the last), with
\* the cursors the server holds afterwards; 34000 is the SQLSTATE
\* invalid_cursor_name
FetchAnswers(conn, crsr, offset) ==
    IF conn = 0 THEN {<<NullResult, srv_cursors>>}
    ELSE {<<PGresult(PGRES_FATAL_ERROR, es, 0), srv_cursors>> : es \in ErrStates}
         \cup
         (IF crsr \notin DOMAIN srv_cursors
          THEN {<<PGresult(PGRES_FATAL_ERROR, "34000", 0), srv_cursors>>}
          ELSE LET sc == srv_cursors[crsr]
                   at == sc.pos + offset
                   to == IF at < 0 THEN 0
                         ELSE IF at > sc.rows + 1 THEN sc.rows + 1
                         ELSE at
                   moved == [srv_cursors EXCEPT ![crsr].pos = to]
               IN  IF to \in 1..sc.rows
                   THEN {<<PGrows(1, cell), moved>> : cell \in srv_cells}
                   ELSE {<<PGrows(0, NoCell), moved>>})

\* DbInterfacePGSQL::cursor_fetch_one, with _pgsql_exec(cursor, query)
cursor_fetch_one(crsr, fetchmode) ==
    /\ alive
    /\ IF crsr = NoCursor
       THEN /\ dbOp' = [Unsent("cursor_fetch_one", "", (* DBERR_FETCH_ROW_FAILED *) -117)
                          EXCEPT !.mode = fetchmode]
            /\ UNCHANGED <<dbSession, dbCfg, dbErr, prepared_stmts,
                           current_resultset_data, alive, dbCursors>>
       ELSE LET idx0 == cursors[crsr].current_row_index
                done(c) == [OnCursor(c, crsr, idx0) EXCEPT !.mode = fetchmode]
            IN
            IF use_native_cursors
            THEN IF ~connection_opts.set
                 THEN /\ alive' = FALSE
                      /\ dbOp' = done(Thrown("cursor_fetch_one", "FETCH"))
                      /\ UNCHANGED <<dbSession, dbErr, dbCfg, prepared_stmts,
                                     current_resultset_data, dbCursors>>
                 ELSE \E a \in FetchAnswers(connaddr, crsr,
                                            RelativeOffset(fetchmode)) :
                      LET r == a[1]
                          rc == PQresultStatus(r)
                          ntuples == get_num_rows(r)
                      IN  /\ srv_cursors' = a[2]
                          /\ last_error' = PQresultErrorMessage(r)
                          /\ last_state' = pg_get_sqlstate(r)
                          /\ IF rc \in {PGRES_COMMAND_OK, PGRES_TUPLES_OK}
                             THEN /\ last_rc' = DBERR_NO_ERROR
                                  /\ cursors' = [cursors EXCEPT ![crsr] =
                                                    NewResultSetData(r, 0)]
                                  /\ no_data' = IF ntuples < 1
                                                THEN no_data \cup {crsr}
                                                ELSE no_data
                                  /\ dbOp' = done(Call("cursor_fetch_one", "FETCH",
                                                IF ntuples < 1 THEN DBERR_NO_DATA
                                                ELSE IF ntuples > 1
                                                THEN (* DBERR_TOO_MUCH_DATA *) -123
                                                ELSE DBERR_NO_ERROR, 0, r))
                             ELSE /\ last_rc' = DBERR_SQL_ERROR
                                  /\ cursors' = cursors
                                  /\ no_data' = no_data
                                  /\ dbOp' = done(Call("cursor_fetch_one", "FETCH",
                                                       DBERR_SQL_ERROR, 0, r))
                          /\ UNCHANGED <<dbSession, dbCfg, prepared_stmts,
                                         current_resultset_data, alive,
                                         declared_cursors>>
            ELSE IF ~cursors[crsr].set
            THEN /\ alive' = FALSE
                 /\ dbOp' = done(Thrown("cursor_fetch_one", ""))
                 /\ UNCHANGED <<dbSession, dbErr, dbCfg, prepared_stmts,
                                current_resultset_data, dbCursors>>
            ELSE LET wk_rs == cursors[crsr]
                     idx == wk_rs.current_row_index + 1
                 IN  /\ wk_rs.current_row_index < MaxIndex
                     /\ cursors' = [cursors EXCEPT
                                      ![crsr].current_row_index = idx]
                     /\ no_data' = IF idx >= wk_rs.num_rows
                                   THEN no_data \cup {crsr}
                                   ELSE no_data
                     /\ dbOp' = done(Unsent("cursor_fetch_one", "",
                                            IF idx >= wk_rs.num_rows
                                            THEN DBERR_NO_DATA
                                            ELSE DBERR_NO_ERROR))
                     /\ UNCHANGED <<dbSession, dbCfg, dbErr, prepared_stmts,
                                    current_resultset_data, alive,
                                    declared_cursors, srv_cursors>>

\* every answer the server can give to CLOSE crsr, with the cursors the
\* server holds afterwards
CloseAnswers(conn, crsr) ==
    IF conn = 0 THEN {<<NullResult, srv_cursors>>}
    ELSE {<<PGresult(PGRES_FATAL_ERROR, es, 0), srv_cursors>> : es \in ErrStates}
         \cup
         (IF crsr \notin DOMAIN srv_cursors
          THEN {<<PGresult(PGRES_FATAL_ERROR, "34000", 0), srv_cursors>>}
          ELSE {<<PGresult(PGRES_COMMAND_OK, NoField, 0),
                  [x \in DOMAIN srv_cursors \ {crsr} |-> srv_cursors[x]]>>})

\* DbInterfacePGSQL::cursor_close: the result of exec("CLOSE ...") goes to an
\* inner rc, the outer rc stays DBERR_NO_ERROR
cursor_close(crsr) ==
    /\ alive
    /\ IF crsr = NoCursor
       THEN /\ dbOp' = Unsent("cursor_close", "", (* DBERR_CLOSE_CURSOR_FAILED *) -112)
            /\ UNCHANGED <<dbSession, dbCfg, dbErr, prepared_stmts,
                           current_resultset_data, alive, dbCursors>>
       ELSE LET idx0 == cursors[crsr].current_row_index
            IN
            IF ~use_native_cursors
            THEN /\ cursors' = [cursors EXCEPT ![crsr] = NoRS]
                 /\ no_data' = no_data
                 /\ dbOp' = OnCursor(Unsent("cursor_close", "", DBERR_NO_ERROR),
                                     crsr, idx0)
                 /\ UNCHANGED <<dbSession, dbCfg, dbErr, prepared_stmts,
                                current_resultset_data, alive,
                                declared_cursors, srv_cursors>>
            ELSE IF ~connection_opts.set
            THEN /\ NullDeref("cursor_close", "CLOSE")
                 /\ UNCHANGED dbCursors
            ELSE \E a \in CloseAnswers(connaddr, crsr) :
                 LET r == a[1]
                     rc == PQresultStatus(r)
                 IN  /\ srv_cursors' = a[2]
                     /\ last_error' = PQresultErrorMessage(r)
                     /\ last_state' = pg_get_sqlstate(r)
                     /\ IF rc \in {PGRES_COMMAND_OK, PGRES_TUPLES_OK}
                        THEN /\ last_rc' = rc
                             /\ current_resultset_data' = RS(r, -1, 0)
                        ELSE /\ last_rc' = ErrorRc(rc)
                             /\ current_resultset_data' = NoRS
                     /\ cursors' = [cursors EXCEPT ![crsr] = NoRS]
                     /\ no_data' = no_data
                     /\ dbOp' = OnCursor(Call("cursor_close", "CLOSE",
                                              DBERR_NO_ERROR, 0, r), crsr, idx0)
                     /\ UNCHANGED <<dbSession, dbCfg, prepared_stmts, alive,
                                    declared_cursors>>

(***************************************************************************)
(* DbInterfaceFactory                                                      *)
(***************************************************************************)
\* the instances counted; a program asks for a few
MaxInstances == 2

\* the frames of getManagerInterface the stack of the process holds
StackFrames == 3

\* the last call: module is what dlopen and dlsym found, logged whether an
\* error was logged, inited whether init() of an instance was called
NoFacCall == [name |-> "init", arg |-> "", lib |-> "", module |-> "",
              logged |-> FALSE, inited |-> FALSE, ret |-> "null"]

InitFactory ==
    /\ libHandles = {}
    /\ instances = 0
    /\ depth = 0
    /\ facAlive = TRUE
    /\ facOp = NoFacCall

\* DbInterfaceFactory::load_dblib for the call c, where module is what the
\* loader finds under the name "libgixsql-" + lib_id + ".so" (no module, a
\* module without get_dblib, a driver) and nullwrite what
\* "dbi->native_lib_ptr = libHandle" does when dbi is empty: the process is
\* killed, or the build leaves the write out
load_dblib(c, lib_id, module, nullwrite) ==
    LET libHandle == module # "missing"
        dblib_provider == module = "driver"
        call == [c EXCEPT !.lib = lib_id, !.module = module,
                          !.logged = ~dblib_provider]
    IN  /\ libHandles' = IF libHandle THEN libHandles \cup {lib_id}
                         ELSE libHandles
        /\ depth' = depth
        /\ IF dblib_provider
           THEN /\ instances < MaxInstances
                /\ instances' = instances + 1
                /\ facAlive' = facAlive
                /\ facOp' = [call EXCEPT !.inited = TRUE, !.ret = "dbi"]
           ELSE /\ instances' = instances
                /\ facAlive' = (nullwrite # "crash")
                /\ facOp' = [call EXCEPT !.ret = IF nullwrite = "crash"
                                                THEN "crash" ELSE "null"]

\* DbInterfaceFactory::getInterface(int type, logger)
getInterface_int(type, module, nullwrite) ==
    /\ facAlive /\ depth = 0
    /\ LET c == [NoFacCall EXCEPT !.name = "getInterface(int)", !.arg = type]
       IN  IF type = "DB_PGSQL" THEN load_dblib(c, "pgsql", module, nullwrite)
           ELSE IF type = "DB_ODBC" THEN load_dblib(c, "odbc", module, nullwrite)
           ELSE IF type = "DB_MYSQL" THEN load_dblib(c, "mysql", module, nullwrite)
           ELSE IF type = "DB_ORACLE" THEN load_dblib(c, "oracle", module, nullwrite)
           ELSE IF type = "DB_SQLITE" THEN load_dblib(c, "sqlite", module, nullwrite)
           ELSE /\ facOp' = c
                /\ UNCHANGED <<libHandles, instances, depth, facAlive>>

\* DbInterfaceFactory::getInterface(std::string t, logger)
getInterface_string(t, module, nullwrite) ==
    /\ facAlive /\ depth = 0
    /\ LET c == [NoFacCall EXCEPT !.name = "getInterface(string)", !.arg = t]
       IN  IF t \in {"pgsql", "odbc", "mysql", "oracle", "sqlite"}
           THEN load_dblib(c, t, module, nullwrite)
           ELSE /\ facOp' = c
                /\ UNCHANGED <<libHandles, instances, depth, facAlive>>

\* the call of DbInterfaceFactory::getManagerInterface, in the form
\* (int or std::string) of its argument: the first frame
getManagerInterface(form, type) ==
    /\ facAlive /\ depth = 0
    /\ depth' = 1
    /\ facOp' = [NoFacCall EXCEPT !.name = form, !.arg = type,
                                  !.ret = "running"]
    /\ UNCHANGED <<libHandles, instances, facAlive>>

\* "return dynamic_cast<IDbManagerInterface *>(getManagerInterface(type))":
\* the frame on top calls the function again; the process is killed when
\* the stack is full
getManagerInterface_again ==
    /\ facAlive /\ depth > 0
    /\ IF depth < StackFrames
       THEN /\ depth' = depth + 1
            /\ UNCHANGED <<facAlive, facOp>>
       ELSE /\ facAlive' = FALSE
            /\ facOp' = [facOp EXCEPT !.ret = "crash"]
            /\ depth' = depth
    /\ UNCHANGED <<libHandles, instances>>

(***************************************************************************)
(* gixpp: main (src/unnamed/part_001).  File names are sequences of         *)
(* characters                                                              *)
(***************************************************************************)
\* std::filesystem::path::filename: what follows the last "/"
path_filename(p) ==
    LET slashes == {i \in 1..Len(p) : p[i] = "/"}
    IN  IF slashes = {} THEN p
        ELSE SubSeq(p, (CHOOSE i \in slashes : \A j \in slashes : j <= i) + 1,
                    Len(p))

\* std::filesystem::path::extension: the filename from its last "." on,
\* the "." included; empty for ".", ".." and a filename whose only "." is
\* its first character
path_extension(p) ==
    LET fn == path_filename(p)
        dots == {i \in 1..Len(fn) : fn[i] = "."}
        last == CHOOSE i \in dots : \A j \in dots : j <= i
    IN  IF dots = {} \/ fn = <<".">> \/ fn = <<".", ".">> \/ last = 1
        THEN << >>
        ELSE SubSeq(fn, last, Len(fn))

\* std::filesystem::path::stem: the filename without its extension
path_stem(p) ==
    LET fn == path_filename(p)
    IN  SubSeq(fn, 1, Len(fn) - Len(path_extension(p)))

\* is_alias(f, ext): the bool returned; ext is path_extension(f)
is_alias(f) == path_stem(f) = <<"@">>

\* get_basename
get_basename(f) == path_stem(f)

\* the file name f as GixPreProcessor and the file system see it: empty,
\* the one file on disk, or another name
PathName(f) ==
    IF f = << >> THEN ""
    ELSE IF f = <<"a", ".", "c">> THEN "a.cbl"
    ELSE "nofile.cbl"

\* the command lines: unknown is unknown_options().size() > 0; infile,
\* outfile, picx and varying are sequences of values, empty when the option
\* is not set
MainArgs ==
    {a \in [unknown : BOOLEAN, help : BOOLEAN, version : BOOLEAN,
            esql : BOOLEAN, consolidate : BOOLEAN,
            infile : {<< >>, <<<<"a", ".", "c">>>>, <<<<"b">>>>,
                      <<<<"d", "/", "a", ".", "c">>>>, <<<< >>>>},
            outfile : {<< >>, <<<<"@", ".", "b">>>>, <<<<"a", ".", "b">>>>,
                       <<<<"@">>>>, <<<<"b">>>>, <<<< >>>>},
            picx : {<< >>, <<"char">>, <<"varchar">>, <<"x">>},
            varying : {<< >>, <<<<"L", ",", "A">>>>, <<<<"L", "A", "B">>>>,
                       <<<<",", "A", "B">>>>, <<<<"L", "A", ",">>>>,
                       <<<<",", "A">>>>}] :
        (IF a.consolidate THEN 1 ELSE 0) + (IF a.esql THEN 2 ELSE 0)
           <= NumStepObjs}

NoMainCall == [args |-> [unknown |-> FALSE, help |-> FALSE,
                         version |-> FALSE, esql |-> FALSE,
                         consolidate |-> FALSE, infile |-> << >>,
                         outfile |-> << >>, picx |-> << >>,
                         varying |-> << >>],
               outfile |-> << >>, processed |-> FALSE, rc |-> -1]

InitMain ==
    /\ mainPc = "start"
    /\ mainOp = NoMainCall

\* main up to "bool b = gp.process()": the command line is checked, gp is
\* given its steps, options and file names
main(args) ==
    /\ mainPc = "start"
    /\ Configuring
    /\ LET call == [NoMainCall EXCEPT !.args = args]
           exits(rc) == /\ mainPc' = "exited"
                        /\ mainOp' = [call EXCEPT !.rc = rc]
                        /\ UNCHANGED ppvars
           varying_ids == args.varying[1]
           commas == {i \in 1..Len(varying_ids) : varying_ids[i] = ","}
           cpos == IF commas = {} THEN -1
                   ELSE (CHOOSE i \in commas : \A j \in commas : i <= j) - 1
           infile == args.infile[1]
           outfile == IF is_alias(args.outfile[1])
                      THEN get_basename(infile) \o <<".">>
                              \o path_extension(args.outfile[1])
                      ELSE args.outfile[1]
           nsteps == (IF args.consolidate THEN 1 ELSE 0)
                        + (IF args.esql THEN 2 ELSE 0)
           withEsql == [id \in {"emit_static_calls", "params_style",
                                "preprocess_copy_files", "consolidated_map",
                                "emit_map_file", "emit_cobol85",
                                "picx_as_varchar", "debug_parser_scanner"} |->
                          IF id = "params_style" THEN VStr("d")
                          ELSE IF id = "consolidated_map" THEN VBool(TRUE)
                          ELSE IF id = "picx_as_varchar"
                          THEN VBool(args.picx = <<"varchar">>)
                          ELSE VBool(FALSE)]
           withVarying == IF Len(args.varying) > 0
                          THEN MapPut(withEsql, "varlen_suffixes", VStr("L,A"))
                          ELSE withEsql
       IN  IF args.unknown THEN exits(1)
           ELSE IF args.help \/ args.version THEN exits(0)
           ELSE IF ~args.consolidate /\ ~args.esql THEN exits(1)
           ELSE IF Len(args.infile) = 0 \/ Len(args.outfile) = 0 THEN exits(1)
           ELSE IF Len(args.picx) > 0
                   /\ args.picx[1] \notin {"char", "charf", "varchar"}
           THEN exits(1)
           ELSE IF Len(args.varying) > 0
                   /\ (\/ cpos = -1
                       \/ Len(varying_ids) < 3
                       \/ cpos = 0
                       \/ cpos = Len(varying_ids) - 1)
           THEN exits(1)
           ELSE IF infile = outfile
           THEN /\ mainPc' = "exited"
                /\ mainOp' = [call EXCEPT !.rc = 1, !.outfile = outfile]
                /\ UNCHANGED ppvars
           ELSE /\ mainPc' = "process"
                /\ mainOp' = [call EXCEPT !.outfile = outfile]
                /\ steps' = [i \in 1..nsteps |-> i]
                /\ opts' = MapPut(IF args.esql THEN withVarying ELSE << >>,
                                  "emit_debug_info", VBool(FALSE))
                /\ infile_' = PathName(infile)
                /\ outfile_' = PathName(outfile)
                /\ UNCHANGED <<ppData, ppErr, ppLoop, optResult, ppHist,
                               calls>>

\* variant: main returns 0 whatever process() left in err_data
main_process_returning_0 ==
    /\ mainPc = "process"
    /\ \/ calls = 0 /\ process
       \/ transform
    /\ IF pc' = "idle"
       THEN /\ mainPc' = "exited"
            /\ mainOp' = [mainOp EXCEPT !.processed = TRUE, !.rc = 0]
       ELSE /\ mainPc' = mainPc
            /\ mainOp' = [mainOp EXCEPT !.processed = TRUE]

\* main from "bool b = gp.process()" to "return rc": process() runs, one
\* step of the model at a time, and its err_code becomes the exit code
main_process ==
    /\ mainPc = "process"
    /\ \/ calls = 0 /\ process
       \/ transform
    /\ IF pc' = "idle"
       THEN /\ mainPc' = "exited"
            /\ mainOp' = [mainOp EXCEPT !.processed = TRUE, !.rc = err_code']
       ELSE /\ mainPc' = mainPc
            /\ mainOp' = [mainOp EXCEPT !.processed = TRUE]

Init == InitPP /\ InitDB /\ InitFactory /\ InitMain

vars == <<ppvars, dbvars, xvars>>

\* the operations of the preprocessor driver; the PostgreSQL driver is not
\* used
Next ==
    \/ \E s \in StepObjs : addStep(s) /\ UNCHANGED <<dbvars, xvars>>
    \/ \E s \in StepObjs : addCustomStep(s) /\ UNCHANGED <<dbvars, xvars>>
    \/ \E f \in {"", "a.cbl", "nofile.cbl"} : setInputFile(f) /\ UNCHANGED <<dbvars, xvars>>
    \/ \E f \in {"", "a.cob"} : setOutputFile(f) /\ UNCHANGED <<dbvars, xvars>>
    \/ \E id \in OptKeys, v \in OptValues : setOpt(id, v) /\ UNCHANGED <<dbvars, xvars>>
    \/ \E id \in OptKeys, b \in BOOLEAN : getOptBool(id, b) /\ UNCHANGED <<dbvars, xvars>>
    \/ \E id \in OptKeys : getOptString(id, "d") /\ UNCHANGED <<dbvars, xvars>>
    \/ \E id \in OptKeys : getOptInt(id, 0) /\ UNCHANGED <<dbvars, xvars>>
    \/ process /\ UNCHANGED <<dbvars, xvars>>
    \/ transform /\ UNCHANGED <<dbvars, xvars>>

Spec == Init /\ [][Next]_vars

\* well-formed parameter arrays of n one-byte text parameters
TextParams(n) ==
    [paramTypes   |-> [i \in 1..n |-> "ALPHANUMERIC"],
     paramValues  |-> [i \in 1..n |-> <<"x">>],
     paramLengths |-> [i \in 1..n |-> 1],
     paramFlags   |-> [i \in 1..n |-> {}]]

\* the operations of the PostgreSQL driver, called with well-formed
\* parameter arrays; the preprocessor is not used
NextDB ==
    \/ \E ac \in {"On", "Off"}, outcome \in {"null", "bad", "encoding", "schema", "begin", "ok"} :
          connect(ac, FALSE, "", "", outcome) /\ UNCHANGED <<ppvars, xvars, srv_cells, dbCursors>>
    \/ terminate_connection /\ UNCHANGED <<ppvars, xvars, srv_cells, dbCursors>>
    \/ reset /\ UNCHANGED <<ppvars, xvars, srv_cells, dbCursors>>
    \/ \E q \in Stmts : exec(q) /\ UNCHANGED <<ppvars, xvars, srv_cells, dbCursors>>
    \/ \E q \in Stmts, np \in 0..MaxParams :
          exec_params(q, TextParams(np).paramTypes, TextParams(np).paramValues,
                      TextParams(np).paramLengths, TextParams(np).paramFlags)
          /\ UNCHANGED <<ppvars, xvars, srv_cells, dbCursors>>
    \/ \E sname \in StmtNames, q \in {"COMMIT", "UPDATE", "SELECT"} :
          prepare(sname, q, << >>)
          /\ UNCHANGED <<ppvars, xvars, srv_cells, dbCursors>>
    \/ \E sname \in StmtNames, np \in 0..MaxParams :
          exec_prepared(sname, TextParams(np).paramTypes,
                        TextParams(np).paramValues, TextParams(np).paramLengths,
                        TextParams(np).paramFlags)
          /\ UNCHANGED <<ppvars, xvars, srv_cells, dbCursors>>

SpecDB == Init /\ [][NextDB]_vars

\* the driver after init(), and a table whose rows hold any kind of value
InitRS ==
    /\ InitPP
    /\ InitDriver
    /\ InitFactory
    /\ InitMain
    /\ srv_cells = {"null", "empty", "text", "bytea"}

\* the operations on result sets, on one connection: statements are
\* executed directly or prepared, and their results are read
NextRS ==
    \/ \E dec \in {"", "off"} :
          /\ nconn = 0
          /\ connect("On", FALSE, "", dec, "ok")
          /\ UNCHANGED <<ppvars, xvars, srv_cells, dbCursors>>
    \/ \E q \in {"SELECT", "UPDATE"} :
          exec(q) /\ UNCHANGED <<ppvars, xvars, srv_cells, dbCursors>>
    \/ \E sname \in StmtNames :
          prepare(sname, "SELECT", << >>)
          /\ UNCHANGED <<ppvars, xvars, srv_cells, dbCursors>>
    \/ \E sname \in StmtNames \cup {"zz"} :
          exec_prepared(sname, << >>, << >>, << >>, << >>)
          /\ UNCHANGED <<ppvars, xvars, srv_cells, dbCursors>>
    \/ \E sname \in LookupNames :
          move_to_first_record(sname) /\ UNCHANGED <<ppvars, xvars, srv_cells>>
    \/ \E ctx \in {"CurrentResultSet", "PreparedStatement", "Cursor"},
           ref \in LookupNames,
           row \in 0..MaxRows, col \in 0..1, bfrlen \in {1, 4},
           null0 \in BOOLEAN :
          /\ ctx = "CurrentResultSet" => ref = ""
          /\ ctx = "Cursor" => ref = NoCursor
          /\ col = 1 => (row = 0 /\ bfrlen = 4)
          /\ null0 => (col = 0 /\ bfrlen = 4)
          /\ get_resultset_value(ctx, ref, row, col, bfrlen, null0)
          /\ UNCHANGED <<ppvars, xvars, srv_cells>>

SpecRS == InitRS /\ [][NextRS]_vars

\* the calling program connects with or without fixup_parameters and
\* prepares statements of every text
NextFix ==
    \/ \E fix \in BOOLEAN :
          connect("On", fix, "", "", "ok")
          /\ UNCHANGED <<ppvars, xvars, srv_cells, dbCursors>>
    \/ \E text \in SeqsUpTo({"a", "?", ":", "'", "\"", " "}, MaxSqlLen) :
          prepare("p1", "UPDATE", text)
          /\ UNCHANGED <<ppvars, xvars, srv_cells, dbCursors>>

SpecFix == Init /\ [][NextFix]_vars

\* the parameter arrays the calling program passes: each of any size up to
\* MaxParams, values empty or of two bytes, lengths DB_NULL or a number of
\* bytes, flags with or without the BINARY bit; memcpy(_data[i], d, l) reads
\* l bytes of the value: the callers pass no length beyond the value's size
ParamArrays ==
    {a \in [paramTypes   : SeqsUpTo({"ALPHANUMERIC", "UNSIGNED_NUMBER"}, MaxParams),
            paramValues  : SeqsUpTo({<< >>, <<"x", "y">>}, MaxParams),
            paramLengths : SeqsUpTo({DB_NULL, 0, 1, 2}, MaxParams),
            paramFlags   : SeqsUpTo({{}, {"BINARY"}}, MaxParams)] :
        \A i \in (1..Len(a.paramValues)) \cap (1..Len(a.paramLengths)) :
            \/ a.paramLengths[i] = DB_NULL
            \/ a.paramLengths[i] <= Len(a.paramValues[i])}

\* statements are executed, directly or prepared, with parameter arrays of
\* every shape, on one connection
NextPar ==
    \/ /\ nconn = 0
       /\ connect("On", FALSE, "", "", "ok")
       /\ UNCHANGED <<ppvars, xvars, srv_cells, dbCursors>>
    \/ prepare("p1", "UPDATE", << >>)
       /\ UNCHANGED <<ppvars, xvars, srv_cells, dbCursors>>
    \/ \E a \in ParamArrays :
          exec_params("UPDATE", a.paramTypes, a.paramValues, a.paramLengths,
                      a.paramFlags)
          /\ UNCHANGED <<ppvars, xvars, srv_cells, dbCursors>>
    \/ \E a \in ParamArrays :
          exec_prepared("p1", a.paramTypes, a.paramValues, a.paramLengths,
                        a.paramFlags)
          /\ UNCHANGED <<ppvars, xvars, srv_cells, dbCursors>>

SpecPar == Init /\ [][NextPar]_vars

\* a program that works with cursors, native or emulated, on one connection
NextCur ==
    \/ \E nat \in {"", "off"} :
          /\ nconn = 0
          /\ connect("On", FALSE, nat, "", "ok")
          /\ UNCHANGED <<ppvars, xvars, srv_cells, dbCursors>>
    \/ \E crsr \in CursorNames \cup {NoCursor}, obj \in 1..2 :
          cursor_declare(crsr, obj) /\ UNCHANGED <<ppvars, xvars, srv_cells>>
    \/ prepare("p1", "SELECT", << >>)
       /\ UNCHANGED <<ppvars, xvars, srv_cells, dbCursors>>
    \/ \E crsr \in CursorNames \cup {NoCursor},
          query \in {<<"SELECT">>, << >>, <<"@", "P1">>, <<"@", "zz">>} :
          cursor_open(crsr, query) /\ UNCHANGED <<ppvars, xvars, srv_cells>>
    \/ \E crsr \in CursorNames \cup {NoCursor}, fetchmode \in {"NEXT", "PREV", "CUR"} :
          cursor_fetch_one(crsr, fetchmode) /\ UNCHANGED <<ppvars, xvars, srv_cells>>
    \/ \E crsr \in CursorNames \cup {NoCursor} :
          cursor_close(crsr) /\ UNCHANGED <<ppvars, xvars, srv_cells>>
    \/ \E crsr \in CursorNames :
          get_resultset_value("Cursor", crsr, 0, 0, 4, FALSE)
          /\ UNCHANGED <<ppvars, xvars, srv_cells>>

SpecCur == Init /\ [][NextCur]_vars

\* one run of gixpp with any command line
NextMain ==
    \/ /\ mainPc = "start"
       /\ \E args \in MainArgs :
             main(args)
             /\ UNCHANGED <<dbvars, libHandles, instances, depth, facAlive,
                            facOp>>
    \/ main_process
       /\ UNCHANGED <<dbvars, libHandles, instances, depth, facAlive, facOp>>

SpecMain == Init /\ [][NextMain]_vars

\* a program that asks the factory for drivers and for manager interfaces,
\* on a machine where any driver module may be absent or broken
NextFactory ==
    \/ \E type \in {"DB_PGSQL", "DB_ODBC", "DB_MYSQL", "DB_ORACLE",
                     "DB_SQLITE", "99"},
          module \in {"missing", "noentry", "driver"},
          nullwrite \in {"crash", "skipped"} :
          getInterface_int(type, module, nullwrite)
          /\ UNCHANGED <<ppvars, dbvars, mainPc, mainOp>>
    \/ \E t \in {"odbc", "mysql", "pgsql", "oracle", "sqlite", "PGSQL", ""},
          module \in {"missing", "noentry", "driver"},
          nullwrite \in {"crash", "skipped"} :
          getInterface_string(t, module, nullwrite)
          /\ UNCHANGED <<ppvars, dbvars, mainPc, mainOp>>
    \/ \E type \in {"DB_PGSQL", "99"} :
          getManagerInterface("getManagerInterface(int)", type)
          /\ UNCHANGED <<ppvars, dbvars, mainPc, mainOp>>
    \/ \E t \in {"pgsql", ""} :
          getManagerInterface("getManagerInterface(string)", t)
          /\ UNCHANGED <<ppvars, dbvars, mainPc, mainOp>>
    \/ getManagerInterface_again
       /\ UNCHANGED <<ppvars, dbvars, mainPc, mainOp>>

\* the processor goes on running the call it is in
SpecFactory ==
    /\ Init
    /\ [][NextFactory]_vars
    /\ WF_vars(getManagerInterface_again
                /\ UNCHANGED <<ppvars, dbvars, mainPc, mainOp>>)

(***************************************************************************)
(* Claims about the preprocessor driver                                    *)
(***************************************************************************)

\* C1: whenever transform() runs the step at list position k > 1, that
\* step's input is the output object of the step at position k-1, and the
\* step at position 1 runs with the Filename wrapper of _infile as input;
\* stated for every list addStep can build, repeated step objects included.
C1_InputIsPredecessorOutput ==
    \A i \in 1..Len(runLog) :
        LET e == runLog[i]
        IN  /\ e.pos > 1 => e.inp = e.prevOut
            /\ e.pos = 1 => /\ e.inp # Null
                            /\ heap[e.inp] = FilenameData(infile_)

\* C2: transform() runs the steps in list order, each with its predecessor
\* in the list (none for the first); a run that returns false ends
\* transform() and process() with false, and no later position has its input
\* set or its run invoked; true is returned only after every step returned
\* true.
C2_OrderAndEarlyReturn ==
    /\ \A i \in 1..Len(runLog) :
          /\ runLog[i].pos = i
          /\ i <= Len(steps)
          /\ runLog[i].step = steps[i]
          /\ runLog[i].pred = (IF i = 1 THEN Null ELSE steps[i-1])
          /\ ~runLog[i].ok => /\ i = Len(runLog)
                              /\ pc = "idle"
                              /\ ret = "false"
    /\ inputSet \subseteq 1..Len(runLog)
    /\ ret = "true" => /\ Len(runLog) = Len(steps)
                       /\ \A i \in 1..Len(runLog) : runLog[i].ok

\* C2 witness: a run returned false before the last position of the list
C2_Witness ==
    /\ ret = "false"
    /\ Len(runLog) >= 1
    /\ Len(runLog) < Len(steps)
    /\ ~runLog[Len(runLog)].ok

\* what process() does when it rejects with code c
Rejected(c, msg) ==
    /\ ret' = "false"
    /\ pc' = "idle"
    /\ err_code' = c
    /\ err_messages' = Append(err_messages, msg)
    /\ runLog' = <<>>

NoOutputIs(b) ==
    \/ "no_output" \in DOMAIN opts /\ opts["no_output"] = VBool(b)
    \/ "no_output" \notin DOMAIN opts /\ b = FALSE

C4_EmptyStepList ==
    [][(process /\ steps = <<>>) =>
        /\ ret' = "false"
        /\ pc' = "idle"
        /\ err_code = 0
        /\ err_code' = 0
        /\ err_messages' = err_messages
        /\ heap' = heap
        /\ input' = input
        /\ output' = output
        /\ stepIn' = stepIn
        /\ stepOut' = stepOut
        /\ runLog' = <<>>
      ]_vars

\* C4 witness: process() has returned on an empty step list
C4_Witness ==
    /\ calls > 0
    /\ steps = <<>>
    /\ ret = "false"
    /\ pc = "idle"

GetOptDefaults == {VBool(TRUE), VBool(FALSE), VStr("d"), VInt(0)}

\* C6: the options map is changed by setOpt only: process(), transform()
\* and the getOpt overloads leave keys and values as they are, and getOpt on
\* an absent key returns the caller's default without inserting the key.
C6_OptionsChangedOnlyBySetOpt ==
    [][/\ opts' # opts => \E id \in OptKeys, v \in OptValues : setOpt(id, v)
       /\ \A id \in OptKeys, d \in GetOptDefaults :
            (GetOptCall(id, d) /\ id \notin DOMAIN opts)
               => (optResult' = d /\ id \notin DOMAIN opts')
      ]_vars

\* C6 witness: getOpt has returned the default for a key that is absent,
\* after a pipeline run, while another key is set
C6_Witness ==
    /\ optResult = VInt(0)
    /\ "no_output" \notin DOMAIN opts
    /\ "params_style" \in DOMAIN opts
    /\ ret = "true"

(***************************************************************************)
(* Claims about the PostgreSQL driver                                      *)
(***************************************************************************)
AutocommitOff == connection_opts.set /\ connection_opts.autocommit = "Off"

ExecOps == {"exec", "exec_params", "exec_prepared"}

\* the last call sent a COMMIT or ROLLBACK through one of the operations ops
SentTxEnd(ops) ==
    /\ alive
    /\ AutocommitOff
    /\ dbOp.name \in ops
    /\ ~dbOp.threw
    /\ dbOp.stmt \in {"COMMIT", "ROLLBACK"}

\* C7: with autocommit OFF a successful connect() has issued exactly one
\* BEGIN TRANSACTION and leaves a transaction open, and after every COMMIT or
\* ROLLBACK the backend accepted, sent through exec, exec_params or
\* exec_prepared, exactly one new transaction has been started when the
\* operation returns.
C7_NewTxAfterEveryTxEnd ==
    /\ (AutocommitOff /\ dbOp.name = "connect" /\ dbOp.ret = DBERR_NO_ERROR)
          => (dbOp.starts = 1 /\ txOpen)
    /\ (SentTxEnd(ExecOps) /\ Accepted(dbOp.res)) => dbOp.starts = 1

\* C8: with autocommit OFF, when the COMMIT or ROLLBACK sent by exec or
\* exec_params is not accepted, no START TRANSACTION is issued, the call
\* returns SQL_ERROR, and get_error_code()/get_state() are those of the
\* failed COMMIT/ROLLBACK.
C8_FailedTxEndIsReported ==
    (SentTxEnd({"exec", "exec_params"}) /\ ~Accepted(dbOp.res)) =>
        /\ dbOp.starts = 0
        /\ dbOp.ret = DBERR_SQL_ERROR
        /\ get_error_code = -(10000 + PQresultStatus(dbOp.res))
        /\ get_error_code < 0
        /\ get_state = pg_get_sqlstate(dbOp.res)

\* C8 witness: the backend has refused a COMMIT sent by exec_params
C8_Witness ==
    /\ SentTxEnd({"exec_params"})
    /\ dbOp.stmt = "COMMIT"
    /\ connaddr # 0
    /\ ~dbOp.res.isnull
    /\ dbOp.res.status = PGRES_FATAL_ERROR
    /\ get_state = "40001"

\* C9: with autocommit OFF, when exec of a COMMIT or ROLLBACK is accepted and
\* the START TRANSACTION that follows is accepted too, exec returns 0 and
\* get_error_code() is 0.
C9_ErrorCodeZeroAfterCommit ==
    (SentTxEnd({"exec"}) /\ Accepted(dbOp.res) /\ dbOp.starts = 1 /\ txOpen) =>
        /\ dbOp.ret = 0
        /\ get_error_code = 0

\* C10: after an INSERT, UPDATE or DELETE sent through exec or exec_params
\* that the backend accepted and that affected no row, get_error_code() is
\* 100 and get_state() is "02000".
C10_NoRowsIsNoData ==
    (/\ alive
     /\ dbOp.name \in {"exec", "exec_params"}
     /\ ~dbOp.threw
     /\ dbOp.stmt \in {"INSERT", "UPDATE", "DELETE"}
     /\ Accepted(dbOp.res)
     /\ dbOp.res.tuples = 0) =>
        /\ get_error_code = 100
        /\ get_state = "02000"

\* an INSERT, UPDATE or DELETE sent through one of the operations ops
SentDML(ops) ==
    /\ alive
    /\ dbOp.name \in ops
    /\ ~dbOp.threw
    /\ dbOp.sent
    /\ dbOp.stmt \in {"INSERT", "UPDATE", "DELETE"}

\* C11: exec and exec_params return 100 when the INSERT, UPDATE or DELETE the
\* backend accepted affected no row, and 0 when it affected at least one.
C11_NoRowsReturns100 ==
    (SentDML({"exec", "exec_params"}) /\ Accepted(dbOp.res)) =>
        dbOp.ret = (IF dbOp.res.tuples = 0 THEN 100 ELSE 0)

\* the lower-cased form of a statement name
LowerCase(n) == IF n = "P1" THEN "p1" ELSE n

\* C12: prepare() called with a name whose lower-cased form is in the table
\* returns PREPARE_FAILED, hands nothing to libpq and leaves the table (and
\* the backend's statements) as they were; prepare() adds only the
\* lower-cased name, and only when the backend accepted the PREPARE; every
\* key of the table is lower-case in every reachable state.
C12_DuplicatePrepareFails ==
    /\ [](\A key \in DOMAIN prepared_stmts : LowerCase(key) = key)
    /\ [][(dbOp'.name = "prepare" /\ ~dbOp'.threw) =>
              /\ LowerCase(dbOp'.arg) \in DOMAIN prepared_stmts =>
                    /\ dbOp'.ret = DBERR_PREPARE_FAILED
                    /\ ~dbOp'.sent
                    /\ prepared_stmts' = prepared_stmts
                    /\ srv_prepared' = srv_prepared
              /\ prepared_stmts' # prepared_stmts =>
                    /\ DOMAIN prepared_stmts' =
                          DOMAIN prepared_stmts \cup {LowerCase(dbOp'.arg)}
                    /\ Accepted(dbOp'.res)
                    /\ dbOp'.ret = DBERR_NO_ERROR]_vars

\* C12 witness: prepare("P1", ...) was rejected without a backend call
\* because "p1" is in the table
C12_Witness ==
    /\ dbOp.name = "prepare"
    /\ dbOp.arg = "P1"
    /\ dbOp.ret = DBERR_PREPARE_FAILED
    /\ ~dbOp.sent
    /\ connaddr # 0
    /\ DOMAIN prepared_stmts = {"p1"}

\* the last call is an exec_prepared that reached the backend call, for a
\* name that an earlier prepare() registered
ExecutedPrepared ==
    /\ alive
    /\ dbOp.name = "exec_prepared"
    /\ ~dbOp.threw
    /\ dbOp.sent
    /\ LowerCase(dbOp.arg) \in DOMAIN prepared_stmts

AnswersFor(rs, op) ==
    op.ok =>
        /\ rs.set
        /\ PQntuples(rs.resultset) > 0
        /\ IF rs.resultset.cell = "null"
           THEN op.is_db_null /\ op.value_len = 0
           ELSE op.bfr \in {CellText(rs.resultset.cell),
                            PQunescapeBytea(CellText(rs.resultset.cell))}

\* C14: exec_prepared, move_to_first_record and get_resultset_value
\* (PreparedStatement context) called with a statement name in any letter
\* case work on the table entry of the lower-cased name; a name whose
\* lower-cased form is not in the table is rejected: exec_prepared returns
\* SQL_ERROR without a backend call, the other two return false.
C14_NamesAreCaseInsensitive ==
    [][LET key == LowerCase(dbOp'.arg)
           intable == key \in DOMAIN prepared_stmts
       IN  /\ (dbOp'.name = "exec_prepared" /\ ~dbOp'.threw) =>
                  IF intable
                  THEN /\ dbOp'.sent
                       /\ DOMAIN prepared_stmts' = DOMAIN prepared_stmts
                       /\ Accepted(dbOp'.res) =>
                             prepared_stmts'[key] = RS(dbOp'.res, -1, 0)
                  ELSE /\ dbOp'.ret = DBERR_SQL_ERROR
                       /\ ~dbOp'.sent
                       /\ prepared_stmts' = prepared_stmts
           /\ (dbOp'.name = "move_to_first_record" /\ dbOp'.arg # "") =>
                  IF intable
                  THEN dbOp'.ok =
                         (/\ prepared_stmts[key].set
                          /\ get_num_rows(prepared_stmts[key].resultset) > 0)
                  ELSE ~dbOp'.ok
           /\ (/\ dbOp'.name = "get_resultset_value"
                /\ dbOp'.stmt = "PreparedStatement") =>
                  IF intable
                  THEN AnswersFor(prepared_stmts[key], dbOp')
                  ELSE ~dbOp'.ok]_vars

\* C14 witness: the value of a row of the statement prepared as "p1" was
\* read under the name "P1"
C14_Witness ==
    /\ dbOp.name = "get_resultset_value"
    /\ dbOp.stmt = "PreparedStatement"
    /\ dbOp.arg = "P1"
    /\ dbOp.ok
    /\ dbOp.value_len = 2
    /\ DOMAIN prepared_stmts = {"p1"}

\* the position after the name that starts at position i of sql
RECURSIVE NameEnd(_, _)
NameEnd(sql, i) ==
    IF i <= Len(sql) /\ isalnum(sql[i]) THEN NameEnd(sql, i + 1) ELSE i

\* the rewriting C15 describes, from position i on: done markers were replaced
\* so far, quote is the quote character of the string position i lies in
\* ("" outside strings)
RECURSIVE MarkersRewritten(_, _, _, _)
MarkersRewritten(sql, i, done, quote) ==
    IF i > Len(sql) THEN << >>
    ELSE LET c == sql[i]
         IN  IF quote # ""
             THEN <<c>> \o MarkersRewritten(sql, i + 1, done,
                                            IF c = quote THEN "" ELSE quote)
             ELSE IF c \in {"'", "\""}
             THEN <<c>> \o MarkersRewritten(sql, i + 1, done, c)
             ELSE IF c = "?"
             THEN <<"$">> \o to_string(done + 1)
                   \o MarkersRewritten(sql, i + 1, done + 1, quote)
             ELSE IF c = ":" /\ NameEnd(sql, i + 1) > i + 1
             THEN <<"$">> \o to_string(done + 1)
                   \o MarkersRewritten(sql, NameEnd(sql, i + 1), done + 1, quote)
             ELSE <<c>> \o MarkersRewritten(sql, i + 1, done, quote)

\* C15: what prepare() hands to the backend is, with fixup_parameters, the
\* SQL text in which every `?` and every `:name` outside quoted strings is
\* replaced by $1, $2, ... in order of appearance and every other character
\* is kept; without fixup_parameters it is the SQL text itself.
C15_FixupRewritesMarkers ==
    (alive /\ dbOp.name = "prepare" /\ ~dbOp.threw /\ dbOp.sent) =>
        dbOp.sql = (IF connection_opts.fixup_parameters
                    THEN MarkersRewritten(dbOp.text, 1, 0, "")
                    ELSE dbOp.text)

\* C16: exec_params and exec_prepared (of a prepared statement) called with
\* four parameter arrays that do not all have the same length return
\* DBERR_INTERNAL_ERR, leave it in the error code, and send nothing.
C16_UnequalArraysAreRejected ==
    (/\ alive
     /\ dbOp.name \in {"exec_params", "exec_prepared"}
     /\ dbOp.name = "exec_prepared" => LowerCase(dbOp.arg) \in DOMAIN prepared_stmts
     /\ \E i, j \in 1..4 : Len(dbOp.args[i]) # Len(dbOp.args[j]))
    => /\ ~dbOp.threw
       /\ ~dbOp.sent
       /\ dbOp.ret = DBERR_INTERNAL_ERR
       /\ last_rc = DBERR_INTERNAL_ERR

\* C17: a parameter is bound as SQL NULL exactly when its length is DB_NULL,
\* otherwise as a copy of exactly that many bytes of its value; its format is
\* binary exactly when its flags have the BINARY bit.
C17_ParametersBoundAsPassed ==
    (/\ dbOp.name \in {"exec_params", "exec_prepared"}
     /\ dbOp.sent
     /\ \A i, j \in 1..4 : Len(dbOp.args[i]) = Len(dbOp.args[j]))
    => /\ Len(dbOp.params) = Len(dbOp.args[2])
       /\ \A i \in 1..Len(dbOp.params) :
            LET value == dbOp.args[2][i]
                length == dbOp.args[3][i]
                flags == dbOp.args[4][i]
                bound == dbOp.params[i]
            IN  /\ bound.value.isnull <=> length = DB_NULL
                /\ length # DB_NULL => bound.value.bytes = SubSeq(value, 1, length)
                /\ bound.format = 1 <=> "BINARY" \in flags

\* the last call was a fetch of the given mode on a cursor that is open,
\* answered without an error of the backend
FetchedFromOpen(fetchmode) ==
    /\ alive
    /\ dbOp.name = "cursor_fetch_one"
    /\ dbOp.mode = fetchmode
    /\ dbOp.arg # NoCursor
    /\ ~dbOp.threw
    /\ IF use_native_cursors
       THEN dbOp.sent /\ Accepted(dbOp.res) /\ dbOp.arg \in DOMAIN srv_cursors
       ELSE cursors[dbOp.arg].set

\* the fetch arrived on a row of the result
OnARow ==
    IF use_native_cursors
    THEN srv_cursors[dbOp.arg].pos \in 1..srv_cursors[dbOp.arg].rows
    ELSE cursors[dbOp.arg].current_row_index < cursors[dbOp.arg].num_rows

\* C18: on an open cursor, native or emulated, a fetch NEXT returns 0 as long
\* as there is a next row, and past the last row it returns NO_DATA and
\* leaves the error code 100 and the SQLSTATE 02000.
C18_FetchPastEndIsNoData ==
    FetchedFromOpen("NEXT") =>
        IF OnARow
        THEN dbOp.ret = DBERR_NO_ERROR
        ELSE /\ dbOp.ret = DBERR_NO_DATA
             /\ last_rc = 100
             /\ last_state = "02000"

\* the move of the row index each fetch mode stands for
IndexMove(fetchmode) ==
    CASE fetchmode = "NEXT" -> 1
      [] fetchmode = "PREV" -> -1
      [] fetchmode = "CUR" -> 0

\* C19: with emulated cursors cursor_open runs the cursor's query itself and
\* keeps its whole result; cursor_fetch_one sends nothing and moves the row
\* index by +1 for NEXT, -1 for PREV and 0 for CUR.
C19_EmulatedFetchFollowsMode ==
    (alive /\ ~use_native_cursors /\ dbOp.arg # NoCursor /\ ~dbOp.threw) =>
        /\ (dbOp.name = "cursor_open" /\ dbOp.ret = DBERR_NO_ERROR) =>
              /\ dbOp.stmt = "SELECT"
              /\ cursors[dbOp.arg].resultset = dbOp.res
              /\ cursors[dbOp.arg].num_rows = dbOp.res.tuples
        /\ dbOp.name = "cursor_fetch_one" =>
              /\ ~dbOp.sent
              /\ cursors[dbOp.arg].current_row_index
                    = dbOp.idx0 + IndexMove(dbOp.mode)

\* C20: after a successful cursor_open, a re-open included, the cursor's row
\* index is -1 and stays so until a fetch; the row index of every cursor is
\* never below -1.
C20_OpenResetsRowIndex ==
    /\ \A c \in CursorNames : cursors[c].current_row_index >= -1
    /\ (dbOp.name = "cursor_open" /\ ~dbOp.threw /\ dbOp.ret = DBERR_NO_ERROR) =>
          /\ dbOp.arg \in CursorNames
          /\ cursors[dbOp.arg].set
          /\ cursors[dbOp.arg].current_row_index = -1
    /\ (dbOp.name = "cursor_declare" /\ dbOp.arg # NoCursor) =>
          cursors[dbOp.arg].current_row_index = dbOp.idx0

\* a cursor that was fetched from is opened again
C20_Witness ==
    /\ dbOp.name = "cursor_open"
    /\ ~dbOp.threw
    /\ dbOp.ret = DBERR_NO_ERROR
    /\ dbOp.idx0 >= 0
    /\ cursors[dbOp.arg].current_row_index = -1

\* C21: cursor_declare of a cursor returns 0, sends nothing and leaves the
\* error code, message and state, the current result set and the prepared
\* statements alone; the cursor table gains the name if it is new and keeps
\* its record of the name otherwise; a null cursor gives
\* DECLARE_CURSOR_FAILED and the table is unchanged.
C21_DeclareOnlyRecords ==
    [][dbOp'.name = "cursor_declare" =>
         /\ ~dbOp'.sent /\ ~dbOp'.threw
         /\ UNCHANGED <<last_rc, last_error, last_state,
                        current_resultset_data, prepared_stmts, cursors,
                        srv_cursors>>
         /\ IF dbOp'.arg = NoCursor
            THEN /\ dbOp'.ret = DBERR_DECLARE_CURSOR_FAILED
                 /\ declared_cursors' = declared_cursors
            ELSE /\ dbOp'.ret = DBERR_NO_ERROR
                 /\ DOMAIN declared_cursors'
                       = DOMAIN declared_cursors \cup {dbOp'.arg}
                 /\ \A c \in DOMAIN declared_cursors :
                       declared_cursors'[c] = declared_cursors[c]
                 /\ dbOp'.arg \notin DOMAIN declared_cursors =>
                       declared_cursors'[dbOp'.arg] = dbOp'.obj]_vars

\* a second cursor object was declared under a name the table already held,
\* after a call that left an error code
C21_Witness ==
    /\ dbOp.name = "cursor_declare"
    /\ dbOp.arg \in DOMAIN declared_cursors
    /\ declared_cursors[dbOp.arg] # dbOp.obj
    /\ dbOp.ret = DBERR_NO_ERROR
    /\ last_rc # 0

\* the statements of the backend catalogue that the name after "@" selects
C22_Named(query) ==
    {n \in DOMAIN srv_prepared : LowerCase(n) = LowerCase(query[2])}

\* C22: cursor_open of a cursor whose query begins with "@" runs the source
\* of the one prepared statement of the backend catalogue that the rest of
\* the query names; when the catalogue does not hold exactly one such
\* statement, or the query is empty, it returns OPEN_CURSOR_FAILED, runs no
\* cursor query and leaves the result data and row index of every cursor.
C22_OpenByStatementName ==
    [][(dbOp'.name = "cursor_open" /\ dbOp'.arg # NoCursor /\ ~dbOp'.threw) =>
         LET query == dbOp'.text
             byname == Len(query) > 0 /\ query[1] = "@"
             ran == dbOp'.sent /\ dbOp'.stmt # "CATALOGUE"
         IN  /\ (byname /\ Cardinality(C22_Named(query)) # 1) =>
                   /\ dbOp'.ret = DBERR_OPEN_CURSOR_FAILED
                   /\ ~ran
                   /\ UNCHANGED <<cursors, srv_cursors>>
             /\ Len(query) = 0 =>
                   /\ dbOp'.ret = DBERR_OPEN_CURSOR_FAILED
                   /\ ~dbOp'.sent
                   /\ UNCHANGED <<cursors, srv_cursors>>
             /\ (byname /\ ran) =>
                   \E n \in C22_Named(query) : dbOp'.sql = <<srv_prepared[n]>>
             /\ (~byname /\ ran) => dbOp'.sql = query
             /\ ~ran => /\ dbOp'.ret = DBERR_OPEN_CURSOR_FAILED
                        /\ UNCHANGED <<cursors, srv_cursors>>]_vars

\* an open by a name the catalogue does not hold failed on a cursor that
\* had been opened and fetched from before
C22_Witness ==
    /\ dbOp.name = "cursor_open"
    /\ dbOp.text = <<"@", "zz">>
    /\ dbOp.ret = DBERR_OPEN_CURSOR_FAILED
    /\ last_rc = 42704
    /\ cursors[dbOp.arg].set
    /\ cursors[dbOp.arg].current_row_index >= 0

\* the result set move_to_first_record(n) looks at
C23_Named(n) ==
    IF n = "" THEN current_resultset_data
    ELSE IF LowerCase(n) \in DOMAIN prepared_stmts
    THEN prepared_stmts[LowerCase(n)]
    ELSE NoRS

\* C23: move_to_first_record returns true exactly when the result set of
\* the named prepared statement (the current result set for the empty name)
\* has at least one row, and whenever it returns false the SQLSTATE is
\* 02000 and the error code NO_DATA.
C23_FirstRecordOrNoData ==
    dbOp.name = "move_to_first_record" =>
       LET rs == C23_Named(dbOp.arg)
       IN  /\ dbOp.ok <=> (/\ rs.set
                           /\ ~rs.resultset.isnull
                           /\ rs.resultset.tuples >= 1)
           /\ ~dbOp.ok => /\ last_state = "02000"
                          /\ last_rc = DBERR_NO_DATA

\* the length of the value get_resultset_value is asked for, -1 when there
\* is no such value or the value is the SQL null
C24_TrueLength ==
    LET ctx == dbOp.stmt
        rs == IF ctx = "CurrentResultSet" THEN current_resultset_data
              ELSE IF ctx = "PreparedStatement"
                      /\ LowerCase(dbOp.arg) \in DOMAIN prepared_stmts
              THEN prepared_stmts[LowerCase(dbOp.arg)]
              ELSE NoRS
        v == PQgetvalue(rs.resultset, dbOp.at[1], dbOp.at[2])
    IN  IF ~rs.set \/ v.isnull \/ rs.resultset.cell = "null" THEN -1
        ELSE IF rs.resultset.cell = "bytea" /\ decode_binary
        THEN Len(PQunescapeBytea(v.text))
        ELSE Len(v.text)

\* C24: get_resultset_value with a buffer length below the length of the
\* value (the unescaped length for a binary value that is decoded) returns
\* false, leaves the buffer as the caller gave it and reports the value
\* length 0.
C24_ShortBufferIsRefused ==
    (/\ dbOp.name = "get_resultset_value"
     /\ ~dbOp.threw
     /\ C24_TrueLength > dbOp.at[3]) =>
        /\ ~dbOp.ok
        /\ dbOp.bfr = <<"?">>
        /\ dbOp.value_len = 0

\* a bytea value of four characters, not decoded, was asked for with a
\* buffer of one
C24_Witness ==
    /\ dbOp.name = "get_resultset_value"
    /\ dbOp.stmt = "PreparedStatement"
    /\ ~decode_binary
    /\ C24_TrueLength = 4
    /\ dbOp.at[3] = 1
    /\ ~dbOp.ok

\* C25: after connect, exec, exec_params, prepare, exec_prepared,
\* cursor_open or cursor_fetch_one has returned success, get_state()
\* returns "00000".
C25_SuccessLeavesState00000 ==
    (/\ dbOp.name \in {"connect", "exec", "exec_params", "prepare",
                       "exec_prepared", "cursor_open", "cursor_fetch_one"}
     /\ ~dbOp.threw
     /\ dbOp.ret = DBERR_NO_ERROR) =>
        get_state = "00000"

\* C26: when a driver operation has returned a failure code (the end of the
\* data of a cursor is not counted as one), get_error_code() is not zero.
C26_FailureIsStored ==
    (/\ dbOp.name \in {"connect", "exec", "exec_params", "prepare",
                       "exec_prepared", "cursor_declare", "cursor_open",
                       "cursor_fetch_one", "cursor_close"}
     /\ ~dbOp.threw
     /\ dbOp.ret \notin {DBERR_NO_ERROR, DBERR_NO_DATA}) =>
        get_error_code # 0

(***************************************************************************)
(* Claims about the driver factory                                         *)
(***************************************************************************)
\* the driver a getInterface argument names, "" when it names none
C27_Known(arg) ==
    IF arg \in {"DB_PGSQL", "pgsql"} THEN "pgsql"
    ELSE IF arg \in {"DB_ODBC", "odbc"} THEN "odbc"
    ELSE IF arg \in {"DB_MYSQL", "mysql"} THEN "mysql"
    ELSE IF arg \in {"DB_ORACLE", "oracle"} THEN "oracle"
    ELSE IF arg \in {"DB_SQLITE", "sqlite"} THEN "sqlite"
    ELSE ""

\* C27: getInterface for a known backend whose driver module cannot be
\* loaded, or lacks get_dblib, logs an error and returns null to the caller
\* without calling init; getInterface for an unknown name or constant
\* returns null and attempts no load.
C27_FailedLoadReturnsNull ==
    facOp.name \in {"getInterface(int)", "getInterface(string)"} =>
       IF C27_Known(facOp.arg) = ""
       THEN facOp.ret = "null" /\ facOp.lib = ""
       ELSE facOp.module \in {"missing", "noentry"} =>
               /\ facOp.logged
               /\ facOp.ret = "null"
               /\ ~facOp.inited
               /\ facAlive

\* C28: every call of getManagerInterface, with an integer or a string,
\* comes to an end and returns null.
C28_ManagerInterfaceReturnsNull ==
    (depth > 0) ~> (depth = 0 /\ facOp.ret = "null")

(***************************************************************************)
(* Claims about gixpp                                                      *)
(***************************************************************************)
\* the name B of a file name B.cbl without directories
C29_Basename(f) ==
    LET dots == {i \in 1..Len(f) : f[i] = "."}
    IN  IF dots = {} THEN f
        ELSE SubSeq(f, 1, (CHOOSE i \in dots : \A j \in dots : i <= j) - 1)

\* C29: with -i B.cbl and -o @.E the output file name gixpp works with is
\* B.E, with one dot between B and E; any other -o argument is the output
\* file name as it stands.
C29_AliasGivesBasenameDotExt ==
    (mainPc = "process" \/ mainOp.processed) =>
       LET i == mainOp.args.infile[1]
           o == mainOp.args.outfile[1]
       IN  IF Len(o) > 2 /\ o[1] = "@" /\ o[2] = "."
           THEN \A x \in 1..Len(i) : i[x] # "/"
                   => mainOp.outfile
                         = C29_Basename(i) \o <<".">> \o SubSeq(o, 3, Len(o))
           ELSE o # <<"@">> => mainOp.outfile = o

\* a command line main refuses
C30_BadCommandLine(a) ==
    \/ a.unknown
    \/ /\ ~a.help /\ ~a.version
       /\ \/ ~a.esql /\ ~a.consolidate
          \/ a.infile = << >> \/ a.outfile = << >>
          \/ a.picx \notin {<< >>, <<"char">>, <<"charf">>, <<"varchar">>}
          \/ a.varying \notin {<< >>, <<<<"L", ",", "A">>>>}
          \/ a.infile = a.outfile

C31_EveryResultIsReleased == dbOp.unreleased = 0

\* C32: every native connection connect() opened is either still held by
\* the instance or was passed to PQfinish, and the instance never holds a
\* finished connection
C32_EveryConnectionIsFinished ==
    /\ \A c \in 1..nconn : c = connaddr \/ c \in finished
    /\ connaddr \notin finished

\* C33: cursor_close returns DBERR_CLOSE_CURSOR_FAILED when the backend
\* refuses the CLOSE of a native cursor and 0 only when the close succeeded;
\* in both cases, and with emulated cursors, the cursor holds no result data
\* when the call has returned
C33_CloseReportsBackendFailure ==
    (dbOp.name = "cursor_close" /\ ~dbOp.threw /\ dbOp.arg # NoCursor) =>
        /\ (dbOp.sent /\ ~Accepted(dbOp.res)) => dbOp.ret = -112
        /\ dbOp.ret = DBERR_NO_ERROR => (~dbOp.sent \/ Accepted(dbOp.res))
        /\ ~cursors[dbOp.arg].set

\* C34: get_resultset_value never writes more than bfrlen bytes into the
\* caller's buffer, whatever the value's length is (smaller than, equal to
\* or larger than bfrlen), for NULL columns and for plain and decoded
\* binary columns
C34_WritesAtMostBfrlen ==
    (dbOp.name = "get_resultset_value" /\ ~dbOp.threw) =>
        dbOp.written <= dbOp.at[3]

\* C35: exec, exec_params, prepare and cursor_open called on an instance
\* that no connect() has connected return an error code; they do not
\* dereference the connection options that were never set
C35_UnconnectedCallReturnsError ==
    (/\ dbOp.name \in {"exec", "exec_params", "prepare", "cursor_open"}
     /\ ~connection_opts.set) =>
        (~dbOp.threw /\ dbOp.ret # DBERR_NO_ERROR)

\* C36: cursor_fetch_one and get_resultset_value (Cursor context) applied to
\* a cursor that holds no result data (declared but never opened, open
\* failed, or closed) return a failure, an error code resp. false, without
\* dereferencing the missing result data, native and emulated
C36_NoDataCursorIsRefused ==
    [][(/\ dbOp'.name \in {"cursor_fetch_one", "get_resultset_value"}
        /\ dbOp'.name = "get_resultset_value" => dbOp'.stmt = "Cursor"
        /\ dbOp'.arg # NoCursor
        /\ ~cursors[dbOp'.arg].set) =>
           /\ ~dbOp'.threw
           /\ dbOp'.name = "cursor_fetch_one" => dbOp'.ret # DBERR_NO_ERROR
           /\ dbOp'.name = "get_resultset_value" => ~dbOp'.ok]_vars

\* C37: cursor_open, cursor_fetch_one and cursor_close leave the
\* connection's current (non-cursor) result set as it was: they neither
\* replace nor clear it
C37_CursorCallsKeepCurrentResultSet ==
    [][dbOp'.name \in {"cursor_open", "cursor_fetch_one", "cursor_close"} =>
           current_resultset_data' = current_resultset_data]_vars

\* C38: after an exec or exec_params (without cursor) that returned a
\* failure code, whatever the reason (backend error, UPDATE or DELETE of no
\* row, parameter count mismatch), the connection has no current result
\* set: the one of an earlier statement is gone
C38_FailureDropsCurrentResultSet ==
    (/\ dbOp.name \in {"exec", "exec_params"}
     /\ ~dbOp.threw
     /\ dbOp.ret # DBERR_NO_ERROR) => ~current_resultset_data.set

\* C39: the table of prepared statements only grows: no operation removes
\* a name from it, and a prepare of a name the table holds returns
\* DBERR_PREPARE_FAILED, also after reset, terminate_connection and a new
\* connect
C39_PreparedTableOnlyGrows ==
    [][/\ DOMAIN prepared_stmts \subseteq DOMAIN prepared_stmts'
       /\ (/\ dbOp'.name = "prepare"
           /\ LowerCase(dbOp'.arg) \in DOMAIN prepared_stmts) =>
              (~dbOp'.threw /\ dbOp'.ret = DBERR_PREPARE_FAILED)]_vars

\* a name prepared on the first connection is refused on the second one,
\* whose backend session does not know it
C39_Witness ==
    /\ dbOp.name = "prepare"
    /\ dbOp.ret = DBERR_PREPARE_FAILED
    /\ ~dbOp.sent
    /\ connaddr = 2
    /\ 1 \in finished
    /\ LowerCase(dbOp.arg) \in DOMAIN prepared_stmts
    /\ LowerCase(dbOp.arg) \notin DOMAIN srv_prepared

\* C40: with emulated cursors, once cursor_fetch_one on a cursor has
\* returned DBERR_NO_DATA, every further cursor_fetch_one on that cursor, in
\* any fetch mode, returns DBERR_NO_DATA, unless the cursor was opened again
\* in between
C40_NoDataUntilReopened ==
    [][(/\ ~use_native_cursors
        /\ dbOp'.name = "cursor_fetch_one"
        /\ dbOp'.arg \in no_data) =>
           (~dbOp'.threw /\ dbOp'.ret = DBERR_NO_DATA)]_vars
====
